---------------------------- MODULE Spec2Model ----------------------------
(***************************************************************************)
(* A model of the jump-challenge mail pipeline: the message store (the     *)
(* in-memory and the PostgreSQL repositories), the sync engine, the bulk   *)
(* actions, the inference client's category matching, the mailbox client's *)
(* cursor scan and the realtime broadcaster.                               *)
(***************************************************************************)
EXTENDS Integers, Sequences, FiniteSets, TLC

VARIABLES
    repo,       \* which EmailRepository main() wired: "memory" or "postgres"
    emails,     \* the message store: local id -> stored message
    mailbox,    \* per owner, the page of provider ids the mail provider lists
    nextID,     \* the next local id uuid.New() hands to model.NewEmail
    sync,       \* per sync invocation: its position, its fetched messages, its result
    cleanDone,  \* per owner: a sync without any backend failure has completed
    clsCategories,  \* ClassifyEmail's category list: a sequence of [ID, Name]
    clsResponse,    \* the text the inference backend answers with
    clsResult,      \* what ClassifyAndSummarizeEmail made of it
    scan,           \* one call of the mailbox client: page, cursor, failing fetches, result
    bulk,           \* the last bulk call: arguments, store before it, remote calls, result
    clients,        \* SSEManager.clients: owner -> set of sinks, for the owners with an entry
    chans,          \* per sink: made, events sent on it, events read from it, closes
    clientsMux,     \* SSEManager.clientsMux: the deliveries holding the read lock, the callers waiting in Lock
    conns,          \* per SSE connection: position of its handler, owner
    bc,             \* per delivering task: position in BroadcastEmailToUser / BroadcastToUser
    sends,          \* deliveries started so far
    unsub,          \* one processEmailUnsubscribe: candidates, position, requests made, result
    mime,           \* one extractBody call: the message payload and the canonical body
    text,           \* one textToHtml call: the plain text and the HTML
    job,            \* the periodic sync job: the run in progress and its position
    ckpt,           \* one checkpoint lookup of the job: the stored rows and the cursor
    req,            \* one request to the sync endpoint: max_results and the limit passed on
    ticker          \* EmailSyncJob.Start: the runs its ticks launched, each with its position

storeVars == <<repo, emails>>
syncVars == <<mailbox, nextID, sync, cleanDone>>
sseVars == <<clients, chans, clientsMux, conns, bc, sends>>
extVars == <<unsub, mime, text, job, ckpt, req, ticker>>
nonSSEVars == <<repo, emails, mailbox, nextID, sync, cleanDone, clsCategories, clsResponse, clsResult, scan, bulk,
               unsub, mime, text, job, ckpt, req, ticker>>
clsVars == <<clsCategories, clsResponse, clsResult>>
nonSSEVarsButMime == <<repo, emails, mailbox, nextID, sync, cleanDone, clsCategories, clsResponse, clsResult, scan, bulk,
                       unsub, text, job, ckpt, req, ticker>>
nonSSEVarsButText == <<repo, emails, mailbox, nextID, sync, cleanDone, clsCategories, clsResponse, clsResult, scan, bulk,
                       unsub, mime, job, ckpt, req, ticker>>
vars == <<repo, emails, mailbox, nextID, sync, cleanDone, clsCategories, clsResponse, clsResult, scan, bulk,
         clients, chans, clientsMux, conns, bc, sends, unsub, mime, text,
         job, ckpt, req, ticker>>

(***************************************************************************)
(* Bounds of the model.                                                    *)
(***************************************************************************)
MaxStoreID == 2
MaxID == 4
MaxPage == 2
MaxStrLen == 3
MaxCats == 2
MaxScanLen == 3
MaxBatch == 2
MaxConns == 3
ChanCap == 1
MaxSends == 2
MaxURLs == 2
MaxTextLen == 7
MaxParts == 2
MaxTicks == 1

Users == {"u1", "u2"}
GmailIDs == {"g1", "g2"}
CategoryIDs == {"c1"}
StoreIDs == 1..MaxStoreID

Repos == {"memory", "postgres"}

(***************************************************************************)
(* model.Email, without the fields no modelled operation reads.            *)
(***************************************************************************)
Email(id, user, gmail, cat, sum, arch) ==
    [ID |-> id, UserID |-> user, GmailID |-> gmail, CategoryID |-> cat,
     Summary |-> sum, Archived |-> arch]

EmptyStore == [i \in {} |-> Email(0, "", "", "", "", FALSE)]

(***************************************************************************)
(* InMemoryEmailRepository: a map keyed by the message's local id.         *)
(***************************************************************************)
MemCreate(st, e) ==
    [ok |-> TRUE, st |-> [i \in DOMAIN st \cup {e.ID} |-> IF i = e.ID THEN e ELSE st[i]]]

MemUpdate(st, e) ==
    IF e.ID \in DOMAIN st
    THEN [ok |-> TRUE, st |-> [st EXCEPT ![e.ID] = e]]
    ELSE [ok |-> FALSE, st |-> st]

MemDelete(st, id) ==
    [ok |-> TRUE, st |-> [i \in DOMAIN st \ {id} |-> st[i]]]

(***************************************************************************)
(* PostgresEmailRepository: id is the primary key, gmail_id is UNIQUE, and *)
(* Create is INSERT ... ON CONFLICT (gmail_id) DO UPDATE, which rewrites   *)
(* every column but id and gmail_id of the row holding that gmail_id.  An  *)
(* insert whose id alone collides violates the primary key and fails.      *)
(***************************************************************************)
PgCreate(st, e) ==
    LET hit == {i \in DOMAIN st : st[i].GmailID = e.GmailID} IN
    IF hit # {}
    THEN [ok |-> TRUE,
          st |-> [i \in DOMAIN st |->
                    IF i \in hit
                    THEN Email(i, e.UserID, st[i].GmailID, e.CategoryID, e.Summary, e.Archived)
                    ELSE st[i]]]
    ELSE IF e.ID \in DOMAIN st
    THEN [ok |-> FALSE, st |-> st]
    ELSE [ok |-> TRUE, st |-> [i \in DOMAIN st \cup {e.ID} |-> IF i = e.ID THEN e ELSE st[i]]]

PgUpdate(st, e) ==
    IF e.ID \in DOMAIN st
    THEN [ok |-> TRUE,
          st |-> [st EXCEPT ![e.ID] =
                    Email(e.ID, @.UserID, @.GmailID, e.CategoryID, e.Summary, e.Archived)]]
    ELSE [ok |-> TRUE, st |-> st]

PgDelete(st, id) ==
    [ok |-> TRUE, st |-> [i \in DOMAIN st \ {id} |-> st[i]]]

(***************************************************************************)
(* The EmailRepository interface, dispatched on the wired implementation.  *)
(***************************************************************************)
RepoCreate(r, st, e) == IF r = "memory" THEN MemCreate(st, e) ELSE PgCreate(st, e)

RepoUpdate(r, st, e) == IF r = "memory" THEN MemUpdate(st, e) ELSE PgUpdate(st, e)

RepoDelete(r, st, id) == IF r = "memory" THEN MemDelete(st, id) ELSE PgDelete(st, id)

\* FindByGmailID reports whether a message of this owner with this provider id is stored.
ExistsByGmailID(st, user, gmail) ==
    \E i \in DOMAIN st : st[i].UserID = user /\ st[i].GmailID = gmail

FindByUserID(st, user) == {i \in DOMAIN st : st[i].UserID = user}

(***************************************************************************)
(* gmailClient.SyncEmails: one linear scan over the listed page.  A        *)
(* message is skipped while the cursor has not been met, the message       *)
(* bearing the cursor id is itself skipped, and a message whose full fetch *)
(* (Users.Messages.Get) fails is logged and left out.                      *)
(***************************************************************************)
RECURSIVE ScanPage(_, _, _, _)
ScanPage(page, after, collecting, failedGet) ==
    IF page = <<>> THEN <<>>
    ELSE LET m == Head(page) IN
         IF after # "" /\ m = after
         THEN ScanPage(Tail(page), after, TRUE, failedGet)
         ELSE IF after # "" /\ ~collecting
         THEN ScanPage(Tail(page), after, collecting, failedGet)
         ELSE IF m \in failedGet
         THEN ScanPage(Tail(page), after, collecting, failedGet)
         ELSE <<m>> \o ScanPage(Tail(page), after, collecting, failedGet)

\* Mutant of GmailSyncEmails: collecting from the first message whatever the cursor.
GmailSyncEmailsCollectsAll(page, after, failedGet) == ScanPage(page, after, TRUE, failedGet)

GmailSyncEmails(page, after, failedGet) == ScanPage(page, after, after = "", failedGet)

\* gmailClient.ListUnreadEmails: the same loop without a cursor.
ListUnreadEmails(page, failedGet) == ScanPage(page, "", TRUE, failedGet)

(***************************************************************************)
(* The sync engine.  One invocation fetches, starts one goroutine per      *)
(* fetched message, waits for all of them, and reads the error channel.    *)
(***************************************************************************)
Procs == {1, 2}
Callers == Users \cup {"nobody"}     \* "nobody": userRepo.FindByID fails

RECURSIVE SeqRange(_)
SeqRange(q) == IF q = <<>> THEN {} ELSE {Head(q)} \cup SeqRange(Tail(q))

\* Sequences of distinct provider ids, at most MaxPage long.
Pages ==
    {q \in UNION {[1..n -> GmailIDs] : n \in 0..MaxPage} :
        \A i, j \in DOMAIN q : q[i] = q[j] => i = j}

IdleSync ==
    [pc |-> "idle", user |-> "", variant |-> "", msgs |-> <<>>, errs |-> 0,
     ti |-> 0, ret |-> "none", beforeIDs |-> {}, beforeGmail |-> {},
     priorClean |-> FALSE,
     backendFailed |-> FALSE, new |-> {}]

SyncIdle ==
    /\ mailbox = [u \in Users |-> <<>>]
    /\ nextID = 1
    /\ sync = [p \in Procs |-> IdleSync]
    /\ cleanDone = [u \in Users |-> FALSE]

\* model.NewEmail("", msg.Id, ...) for each fetched provider id, with fresh local ids.
NewEmails(fetched, first) ==
    [k \in 1..Len(fetched) |->
        [e |-> Email(first + k - 1, "", fetched[k], "", "", FALSE), pc |-> "check"]]

StoredGmailIDs(st, user) == {st[i].GmailID : i \in FindByUserID(st, user)}

(***************************************************************************)
(* emailService.SyncEmails up to the start of the goroutines: the owner    *)
(* lookup, the category lookup and the mailbox fetch, each fatal.          *)
(***************************************************************************)
SyncFetch(p, u, variant, after) ==
    /\ sync[p].pc = "idle"
    /\ IF u \notin Users
       THEN /\ sync' = [sync EXCEPT ![p] = [IdleSync EXCEPT
                            !.pc = "done", !.user = u, !.variant = variant, !.ret = "err"]]
            /\ UNCHANGED nextID
       ELSE \E fetchOK \in BOOLEAN, failedGet \in SUBSET SeqRange(mailbox[u]) :
            LET fetched == IF variant = "SyncEmails"
                           THEN ListUnreadEmails(mailbox[u], failedGet)
                           ELSE GmailSyncEmails(mailbox[u], after, failedGet)
            IN IF ~fetchOK
               THEN /\ failedGet = {}
                    /\ sync' = [sync EXCEPT ![p] = [IdleSync EXCEPT
                            !.pc = "done", !.user = u, !.variant = variant, !.ret = "err",
                            !.backendFailed = TRUE]]
                    /\ UNCHANGED nextID
               ELSE /\ nextID + Len(fetched) - 1 <= MaxID
                    /\ sync' = [sync EXCEPT ![p] = [IdleSync EXCEPT
                            !.pc = "run", !.user = u, !.variant = variant,
                            !.msgs = NewEmails(fetched, nextID),
                            !.beforeIDs = FindByUserID(emails, u),
                            !.beforeGmail = StoredGmailIDs(emails, u),
                            !.priorClean = cleanDone[u],
                            !.backendFailed = (failedGet # {})]]
                    /\ nextID' = nextID + Len(fetched)
    /\ UNCHANGED <<storeVars, mailbox, cleanDone, clsVars, scan, bulk, sseVars, extVars>>

(***************************************************************************)
(* One goroutine of SyncEmails, one step per repository or backend call.   *)
(***************************************************************************)
\* Mutant of GoCheck: the dedupe lookup never reports an existing message.
GoCheckNeverSkips(p, k) ==
    /\ sync[p].pc = "run"
    /\ k \in DOMAIN sync[p].msgs
    /\ sync[p].msgs[k].pc = "check"
    /\ sync' = [sync EXCEPT ![p].msgs[k] =
                    [e |-> [@.e EXCEPT !.UserID = sync[p].user], pc |-> "classify"]]
    /\ UNCHANGED <<storeVars, mailbox, nextID, cleanDone, clsVars, scan, bulk, sseVars, extVars>>

\* email.UserID = userID; FindByGmailID: skip a message that is already stored.
GoCheck(p, k) ==
    /\ sync[p].pc = "run"
    /\ k \in DOMAIN sync[p].msgs
    /\ sync[p].msgs[k].pc = "check"
    /\ LET m == sync[p].msgs[k]
           e == [m.e EXCEPT !.UserID = sync[p].user]
       IN sync' = [sync EXCEPT ![p].msgs[k] =
                    [e |-> e,
                     pc |-> IF ExistsByGmailID(emails, e.UserID, e.GmailID)
                            THEN "skipped" ELSE "classify"]]
    /\ UNCHANGED <<storeVars, mailbox, nextID, cleanDone, clsVars, scan, bulk, sseVars, extVars>>

\* ClassifyAndSummarizeEmail: sets CategoryID and Summary, or fails and sends on errChan.
ClassifyAndSummarizeEmail(e, cat) == [e EXCEPT !.CategoryID = cat, !.Summary = "s"]

\* The ids ClassifyAndSummarizeEmail can set: the id mapped to the name the
\* inference client returned, or categories[0].ID; none when there is no
\* category, and then the call fails.
AssignableIDs(categories) == {categories[i].ID : i \in DOMAIN categories}

GoClassify(p, k) ==
    /\ sync[p].pc = "run"
    /\ k \in DOMAIN sync[p].msgs
    /\ sync[p].msgs[k].pc = "classify"
    /\ \/ \E cat \in AssignableIDs(clsCategories) :
            sync' = [sync EXCEPT ![p].msgs[k] =
                        [e |-> ClassifyAndSummarizeEmail(@.e, cat), pc |-> "create"]]
       \/ sync' = [sync EXCEPT ![p].msgs[k].pc = "failed",
                               ![p].errs = @ + 1,
                               ![p].backendFailed = TRUE]
    /\ UNCHANGED <<storeVars, mailbox, nextID, cleanDone, clsVars, scan, bulk, sseVars, extVars>>

(***************************************************************************)
(* SyncEmailsWithNewEmails(ctx, userID, maxResults, afterID) returns the   *)
(* fetched set and the subset this call newly persisted.  It runs the same *)
(* per-message pipeline; it fetches with the cursor, records each message  *)
(* it persists, and returns after the error check.                         *)
(***************************************************************************)
Variants == {"SyncEmails", "SyncEmailsWithNewEmails"}

NewlyPersisted(variant, new, k) ==
    IF variant = "SyncEmailsWithNewEmails" THEN new \cup {k} ELSE new

ReturnsAfterErrorCheck(variant) == variant = "SyncEmailsWithNewEmails"

\* emailRepo.Create: a failure is sent on errChan and ends the goroutine.
GoCreate(p, k) ==
    /\ sync[p].pc = "run"
    /\ k \in DOMAIN sync[p].msgs
    /\ sync[p].msgs[k].pc = "create"
    /\ LET r == RepoCreate(repo, emails, sync[p].msgs[k].e) IN
       \/ /\ r.ok
          /\ emails' = r.st
          /\ sync' = [sync EXCEPT ![p].msgs[k].pc = "archive",
                                  ![p].new = NewlyPersisted(sync[p].variant, @, k)]
       \/ /\ ~r.ok \/ repo = "postgres"
          /\ emails' = emails
          /\ sync' = [sync EXCEPT ![p].msgs[k].pc = "failed",
                                  ![p].errs = @ + 1,
                                  ![p].backendFailed = TRUE]
    /\ UNCHANGED <<repo, mailbox, nextID, cleanDone, clsVars, scan, bulk, sseVars, extVars>>

\* Mutant of GoArchive: a failed archive call is sent on errChan.
GoArchiveReportsFailure(p, k) ==
    /\ sync[p].pc = "run"
    /\ k \in DOMAIN sync[p].msgs
    /\ sync[p].msgs[k].pc = "archive"
    /\ \/ LET e == [sync[p].msgs[k].e EXCEPT !.Archived = TRUE] IN
          /\ emails' = RepoUpdate(repo, emails, e).st
          /\ sync' = [sync EXCEPT ![p].msgs[k] = [e |-> e, pc |-> "stored"]]
       \/ /\ emails' = emails
          /\ sync' = [sync EXCEPT ![p].msgs[k].pc = "stored",
                                  ![p].errs = @ + 1,
                                  ![p].backendFailed = TRUE]
    /\ UNCHANGED <<repo, mailbox, nextID, cleanDone, clsVars, scan, bulk, sseVars, extVars>>

\* gmailClient.ArchiveEmail, then email.Archived = true and emailRepo.Update;
\* neither failure is reported.
GoArchive(p, k) ==
    /\ sync[p].pc = "run"
    /\ k \in DOMAIN sync[p].msgs
    /\ sync[p].msgs[k].pc = "archive"
    /\ \/ LET e == [sync[p].msgs[k].e EXCEPT !.Archived = TRUE] IN
          /\ emails' = RepoUpdate(repo, emails, e).st
          /\ sync' = [sync EXCEPT ![p].msgs[k] = [e |-> e, pc |-> "stored"]]
       \/ /\ emails' = emails
          /\ sync' = [sync EXCEPT ![p].msgs[k].pc = "stored",
                                  ![p].backendFailed = TRUE]
    /\ UNCHANGED <<repo, mailbox, nextID, cleanDone, clsVars, scan, bulk, sseVars, extVars>>

GoroutineEnded(m) == m.pc \in {"skipped", "failed", "stored"}

Completed(p, ret) ==
    [sync EXCEPT ![p].pc = "done", ![p].ret = ret]

\* Mutant of SyncJoin: what the goroutines sent on errChan is not looked at.
SyncJoinDropsErrors(p) ==
    /\ sync[p].pc = "run"
    /\ \A k \in DOMAIN sync[p].msgs : GoroutineEnded(sync[p].msgs[k])
    /\ IF ~ReturnsAfterErrorCheck(sync[p].variant) /\ sync[p].msgs # <<>>
       THEN /\ sync' = [sync EXCEPT ![p].pc = "tail", ![p].ti = 1]
            /\ UNCHANGED cleanDone
       ELSE /\ sync' = Completed(p, "ok")
            /\ cleanDone' = [cleanDone EXCEPT ![sync[p].user] = @ \/ ~sync[p].backendFailed]
    /\ UNCHANGED <<storeVars, mailbox, nextID, clsVars, scan, bulk, sseVars, extVars>>

\* wg.Wait(), close(errChan), and the first error read from it.
SyncJoin(p) ==
    /\ sync[p].pc = "run"
    /\ \A k \in DOMAIN sync[p].msgs : GoroutineEnded(sync[p].msgs[k])
    /\ IF sync[p].errs > 0
       THEN /\ sync' = Completed(p, "err")
            /\ UNCHANGED cleanDone
       ELSE IF ~ReturnsAfterErrorCheck(sync[p].variant) /\ sync[p].msgs # <<>>
       THEN /\ sync' = [sync EXCEPT ![p].pc = "tail", ![p].ti = 1]
            /\ UNCHANGED cleanDone
       ELSE /\ sync' = Completed(p, "ok")
            /\ cleanDone' = [cleanDone EXCEPT ![sync[p].user] = @ \/ ~sync[p].backendFailed]
    /\ UNCHANGED <<storeVars, mailbox, nextID, clsVars, scan, bulk, sseVars, extVars>>

\* The loop that ends SyncEmails: every fetched message is handed to Create again.
SyncTail(p) ==
    /\ sync[p].pc = "tail"
    /\ LET k == sync[p].ti
           e == [sync[p].msgs[k].e EXCEPT !.UserID = sync[p].user]
           r == RepoCreate(repo, emails, e)
       IN IF ~r.ok
          THEN /\ sync' = Completed(p, "err")
               /\ UNCHANGED <<emails, cleanDone>>
          ELSE /\ emails' = r.st
               /\ IF k < Len(sync[p].msgs)
                  THEN /\ sync' = [sync EXCEPT ![p].ti = k + 1]
                       /\ UNCHANGED cleanDone
                  ELSE /\ sync' = Completed(p, "ok")
                       /\ cleanDone' = [cleanDone EXCEPT
                                            ![sync[p].user] = @ \/ ~sync[p].backendFailed]
    /\ UNCHANGED <<repo, mailbox, nextID, clsVars, scan, bulk, sseVars, extVars>>

\* The caller has read the result; the invocation's frame is gone.
SyncReturn(p) ==
    /\ sync[p].pc = "done"
    /\ sync' = [sync EXCEPT ![p] = IdleSync]
    /\ UNCHANGED <<storeVars, mailbox, nextID, cleanDone, clsVars, scan, bulk, sseVars, extVars>>

(***************************************************************************)
(* The inference client's category matching.  A string is a sequence of    *)
(* one-character strings; strings.ToLower and strings.TrimSpace are        *)
(* modelled on an alphabet with one letter in both cases, a second letter  *)
(* and the space.                                                          *)
(***************************************************************************)
Chars == {"a", "A", "b", " "}

Strings == UNION {[1..n -> Chars] : n \in 0..MaxStrLen}

LowerChar(c) == IF c = "A" THEN "a" ELSE c

ToLower(str) == [i \in DOMAIN str |-> LowerChar(str[i])]

RECURSIVE TrimLeft(_)
TrimLeft(str) ==
    IF str # <<>> /\ Head(str) = " " THEN TrimLeft(Tail(str)) ELSE str

RECURSIVE TrimRight(_)
TrimRight(str) ==
    IF str # <<>> /\ str[Len(str)] = " "
    THEN TrimRight(SubSeq(str, 1, Len(str) - 1)) ELSE str

TrimSpace(str) == TrimRight(TrimLeft(str))

\* strings.Contains
Contains(str, sub) ==
    \E i \in 0..(Len(str) - Len(sub)) : SubSeq(str, i + 1, i + Len(sub)) = sub

\* The first loop of findBestCategoryMatch, from position k on: 0 when no name matches.
RECURSIVE FirstExact(_, _, _)
FirstExact(responseLower, names, k) ==
    IF k > Len(names) THEN 0
    ELSE IF ToLower(TrimSpace(names[k])) = responseLower THEN k
    ELSE FirstExact(responseLower, names, k + 1)

\* The second loop of findBestCategoryMatch.
RECURSIVE FirstPartial(_, _, _)
FirstPartial(responseLower, names, k) ==
    IF k > Len(names) THEN 0
    ELSE LET categoryLower == ToLower(TrimSpace(names[k])) IN
         IF Contains(responseLower, categoryLower) \/ Contains(categoryLower, responseLower)
         THEN k
         ELSE FirstPartial(responseLower, names, k + 1)

\* Mutant of findBestCategoryMatch: the containment pass runs before the exact pass.
findBestCategoryMatchPartialFirst(response, names) ==
    LET responseLower == ToLower(TrimSpace(response))
        exact == FirstExact(responseLower, names, 1)
        partial == FirstPartial(responseLower, names, 1)
    IN IF partial # 0 THEN names[partial]
       ELSE IF exact # 0 THEN names[exact]
       ELSE IF Len(names) > 0 THEN names[1]
       ELSE <<>>

findBestCategoryMatch(response, names) ==
    LET responseLower == ToLower(TrimSpace(response))
        exact == FirstExact(responseLower, names, 1)
        partial == FirstPartial(responseLower, names, 1)
    IN IF exact # 0 THEN names[exact]
       ELSE IF partial # 0 THEN names[partial]
       ELSE IF Len(names) > 0 THEN names[1]
       ELSE <<>>

\* aiClient.ClassifyEmail once the backend has answered: the backend's text is
\* trimmed (classifyEmailWithOpenAIStyle, classifyEmailWithGemini) and matched.
ClassifyEmail(raw, categories) ==
    findBestCategoryMatch(TrimSpace(raw), [i \in DOMAIN categories |-> categories[i].Name])

\* categoryMap of ClassifyAndSummarizeEmail: name -> id, a later category
\* overwriting an earlier one of the same name; 0 when the name is no key.
CategoryMap(categories, name) ==
    LET hits == {i \in DOMAIN categories : categories[i].Name = name} IN
    IF hits = {} THEN 0
    ELSE categories[CHOOSE i \in hits : \A j \in hits : j <= i].ID

\* emailService.ClassifyAndSummarizeEmail up to email.CategoryID = categoryID.
ClassifyCategory(raw, categories) ==
    LET name == ClassifyEmail(raw, categories)
        id == CategoryMap(categories, name)
    IN IF id # 0 THEN [err |-> FALSE, name |-> name, id |-> id]
       ELSE IF Len(categories) > 0
       THEN [err |-> FALSE, name |-> name, id |-> categories[1].ID]
       ELSE [err |-> TRUE, name |-> name, id |-> 0]

CategoryNames ==
    {<<"a">>, <<"A">>, <<"b">>, <<"a", "b">>, <<"A", "b">>, <<"b", "a">>,
     <<" ", "a">>, <<"b", " ">>}

\* Category lists as categoryRepo.FindAll returns them; a category's id is its rank.
CategoryLists ==
    {[i \in DOMAIN q |-> [ID |-> i, Name |-> q[i]]] :
        q \in UNION {[1..n -> CategoryNames] : n \in 1..MaxCats}}

NoResult == [state |-> "none", name |-> <<>>, id |-> 0]

Conns == 1..MaxConns
Senders == {1, 2}

NoChan == [made |-> FALSE, sent |-> <<>>, read |-> 0, closes |-> 0]

IdleSender ==
    [pc |-> "idle", user |-> "", event |-> [type |-> "", data |-> "", n |-> 0],
     todo |-> {}, cur |-> 0, snapshot |-> {}, free |-> {}]

NoAnswer == [asked |-> FALSE, err |-> FALSE, text |-> <<>>, target |-> "none"]

NoUnsub ==
    [pc |-> "idle", n |-> 0, i |-> 0, log |-> <<>>, calls |-> <<>>,
     seen |-> [got |-> FALSE, form |-> FALSE, followable |-> FALSE, formOK |-> FALSE],
     answer |-> NoAnswer, ok |-> FALSE, cancelled |-> FALSE, afterCancel |-> <<>>,
     tried |-> <<>>, ret |-> "none"]

NoPart == [MimeType |-> "", Data |-> <<>>, Parts |-> <<>>]
NoMime == [payload |-> NoPart, body |-> <<>>, done |-> FALSE]
NoText == [in |-> <<>>, out |-> <<>>, done |-> FALSE]

\* Nothing in progress in the unsubscribe automation, in body decoding or in the sync job.
NoJob ==
    [pc |-> "idle", tick |-> 0, todo |-> <<>>, cur |-> "", had |-> FALSE, seen |-> {},
     withSink |-> {}, invoked |-> {}, new |-> <<>>, k |-> 0, log |-> <<>>, outcome |-> "none"]

\* No checkpoint lookup made.
NoCkpt == [pc |-> "idle", user |-> "", rows |-> <<>>, fails |-> FALSE, after |-> ""]

\* No request to the sync endpoint yet.
NoReq == [pc |-> "idle", param |-> <<>>, maxResults |-> 0, status |-> 0]

\* EmailSyncJob.Start not called yet.
NoTicker == [pc |-> "new", faulty |-> FALSE, run |-> <<>>]

ExtIdle ==
    /\ unsub = NoUnsub /\ mime = NoMime /\ text = NoText /\ job = NoJob /\ ckpt = NoCkpt
    /\ req = NoReq /\ ticker = NoTicker

\* NewSSEManager, and no connection yet.
SSEIdle ==
    /\ clients = [u \in {} |-> {}]
    /\ chans = [c \in Conns |-> NoChan]
    /\ clientsMux = [readers |-> {}, waiting |-> {}]
    /\ conns = [c \in Conns |-> [pc |-> "new", user |-> ""]]
    /\ bc = [p \in Senders |-> IdleSender]
    /\ sends = 0

NoBulk ==
    [op |-> "none", action |-> "", caller |-> "", ids |-> <<>>, before |-> EmptyStore,
     calls |-> {}, remoteFailed |-> {}, clientErr |-> FALSE, ret |-> "none"]

NoScan == [page |-> <<>>, after |-> "", failedGet |-> {}, state |-> "none", out |-> <<>>]

\* Nothing in progress outside the store and the sync engine.
RestIdle ==
    /\ scan = NoScan
    /\ bulk = NoBulk
    /\ SSEIdle
    /\ ExtIdle
    /\ clsResponse = <<>>
    /\ clsResult = NoResult

ClsIdle ==
    /\ RestIdle
    /\ clsCategories = <<>>

\* What categoryRepo.FindAll returns to the sync engine: no category yet, or
\* the categories the users created.
OneCategory == <<[ID |-> "c1", Name |-> <<"a">>]>>
SyncCategoryLists == {<<>>, OneCategory}

\* Everything but the unsubscribe automation and body decoding is idle.
CoreIdle ==
    /\ SyncIdle
    /\ scan = NoScan
    /\ bulk = NoBulk
    /\ SSEIdle
    /\ clsCategories = <<>>
    /\ clsResponse = <<>>
    /\ clsResult = NoResult

ClsInit ==
    /\ scan = NoScan
    /\ bulk = NoBulk
    /\ SSEIdle
    /\ ExtIdle
    /\ clsCategories \in CategoryLists
    /\ clsResponse \in Strings
    /\ clsResult = NoResult

\* The inference backend answers, and the service maps the answer to a category.
ClsClassify ==
    /\ clsResult.state = "none"
    /\ LET r == ClassifyCategory(clsResponse, clsCategories) IN
       clsResult' = [state |-> IF r.err THEN "err" ELSE "ok", name |-> r.name, id |-> r.id]
    /\ UNCHANGED <<clsCategories, clsResponse>>

\* The inference backend fails (transport error, non-2xx, no choices).
ClsBackendFails ==
    /\ clsResult.state = "none"
    /\ clsResult' = [state |-> "err", name |-> <<>>, id |-> 0]
    /\ UNCHANGED <<clsCategories, clsResponse>>

(***************************************************************************)
(* The store driven directly through its interface.                        *)
(***************************************************************************)
EmailInputs ==
    {Email(i, u, g, c, "s", a) :
        i \in StoreIDs, u \in Users, g \in GmailIDs, c \in CategoryIDs, a \in BOOLEAN}

StoreInit ==
    /\ repo \in Repos
    /\ emails = EmptyStore
    /\ SyncIdle
    /\ ClsIdle

StoreCreate ==
    \E e \in EmailInputs :
        /\ emails' = RepoCreate(repo, emails, e).st
        /\ UNCHANGED <<repo, syncVars, clsVars, scan, bulk, sseVars, extVars>>

StoreUpdate ==
    \E e \in EmailInputs :
        /\ emails' = RepoUpdate(repo, emails, e).st
        /\ UNCHANGED <<repo, syncVars, clsVars, scan, bulk, sseVars, extVars>>

StoreDelete ==
    \E i \in StoreIDs :
        /\ emails' = RepoDelete(repo, emails, i).st
        /\ UNCHANGED <<repo, syncVars, clsVars, scan, bulk, sseVars, extVars>>

StoreNext == StoreCreate \/ StoreUpdate \/ StoreDelete

SpecStore == StoreInit /\ [][StoreNext]_vars

(***************************************************************************)
(* Sync invocations against the owners' mailboxes: SyncEmails one call at  *)
(* a time (SpecSync), SyncEmailsWithNewEmails one call at a time           *)
(* (SpecSyncNew), and two SyncEmails calls that may overlap (SpecSyncConc).*)
(***************************************************************************)
MailboxPages == {<<>>, <<"g1">>, <<"g1", "g2">>, <<"g2", "g1">>}

SyncInit ==
    /\ repo \in Repos
    /\ emails = EmptyStore
    /\ mailbox \in [Users -> MailboxPages]
    /\ nextID = 1
    /\ sync = [p \in Procs |-> IdleSync]
    /\ cleanDone = [u \in Users |-> FALSE]
    /\ RestIdle
    /\ clsCategories \in SyncCategoryLists

SyncStep(p) ==
    \/ \E k \in 1..MaxPage : GoCheck(p, k)
    \/ \E k \in 1..MaxPage : GoClassify(p, k)
    \/ \E k \in 1..MaxPage : GoCreate(p, k)
    \/ \E k \in 1..MaxPage : GoArchive(p, k)
    \/ SyncJoin(p)
    \/ SyncReturn(p)

SyncNext ==
    \/ \E u \in Callers : SyncFetch(1, u, "SyncEmails", "")
    \/ SyncStep(1)
    \/ SyncTail(1)

SpecSync == SyncInit /\ [][SyncNext]_vars

SyncNewNext ==
    \/ \E u \in Callers, after \in GmailIDs \cup {""} :
            SyncFetch(1, u, "SyncEmailsWithNewEmails", after)
    \/ SyncStep(1)

SpecSyncNew == SyncInit /\ [][SyncNewNext]_vars

SyncConcInit ==
    /\ repo \in Repos
    /\ emails = EmptyStore
    /\ mailbox \in {[u \in Users |-> IF u = "u1" THEN q ELSE <<>>] : q \in MailboxPages}
    /\ nextID = 1
    /\ sync = [p \in Procs |-> IdleSync]
    /\ cleanDone = [u \in Users |-> FALSE]
    /\ RestIdle
    /\ clsCategories = OneCategory

SyncConcNext ==
    \E p \in Procs :
        \/ SyncFetch(p, "u1", "SyncEmails", "")
        \/ SyncStep(p)
        \/ SyncTail(p)

SpecSyncConc == SyncConcInit /\ [][SyncConcNext]_vars

(***************************************************************************)
(* C5: after any sequence of create, update and delete operations on the   *)
(* message store, no two stored messages have the same (owner, provider    *)
(* id) pair.                                                               *)
(***************************************************************************)
C5_StoreUniqueness ==
    \A i, j \in DOMAIN emails :
        (emails[i].UserID = emails[j].UserID /\ emails[i].GmailID = emails[j].GmailID)
            => i = j

(***************************************************************************)
(* C1: for a fixed upstream message set, a sync that runs after a sync     *)
(* without backend failure, and itself meets no backend failure, leaves    *)
(* the owner's stored messages exactly those stored when it started (and   *)
(* reports nothing newly persisted).                                       *)
(***************************************************************************)
C1_IdempotentSync ==
    \A p \in Procs :
        (/\ sync[p].pc = "done"
         /\ sync[p].ret = "ok"
         /\ sync[p].priorClean
         /\ ~sync[p].backendFailed)
            => /\ FindByUserID(emails, sync[p].user) = sync[p].beforeIDs
               /\ sync[p].new = {}

(***************************************************************************)
(* C2: once two overlapping sync invocations for the same owner have both  *)
(* ended, the store holds at most one message for each (owner, provider    *)
(* id).                                                                    *)
(***************************************************************************)
C2_DedupeUnderConcurrency ==
    (\A p \in Procs : sync[p].pc \in {"idle", "done"})
        => \A u \in Users, g \in GmailIDs :
                Cardinality({i \in DOMAIN emails :
                                emails[i].UserID = u /\ emails[i].GmailID = g}) <= 1

(***************************************************************************)
(* C3: a sync invocation in which some fetched message failed returns an   *)
(* error, has stored none of the failed messages, and has stored (and      *)
(* kept) every message it processed successfully.                          *)
(***************************************************************************)
C3_PartialFailure ==
    \A p \in Procs :
        (sync[p].pc = "done" /\ \E k \in DOMAIN sync[p].msgs : sync[p].msgs[k].pc = "failed")
            => /\ sync[p].ret = "err"
               /\ \A k \in DOMAIN sync[p].msgs :
                    LET m == sync[p].msgs[k] IN
                    /\ m.pc = "failed" => ~ExistsByGmailID(emails, sync[p].user, m.e.GmailID)
                    /\ m.pc = "stored" => ExistsByGmailID(emails, sync[p].user, m.e.GmailID)

C3_Witness ==
    \E p \in Procs :
        /\ sync[p].pc = "done"
        /\ \E k \in DOMAIN sync[p].msgs : sync[p].msgs[k].pc = "failed"
        /\ \E k \in DOMAIN sync[p].msgs : sync[p].msgs[k].pc = "stored"

(***************************************************************************)
(* C4: the newly-persisted set a sync invocation returns holds exactly the *)
(* fetched messages whose (owner, provider id) was not stored before the   *)
(* call and that the call persisted; it is a subset of the fetched set.    *)
(***************************************************************************)
C4_NewlyPersisted ==
    \A p \in Procs :
        sync[p].pc = "done"
            => /\ sync[p].new \subseteq DOMAIN sync[p].msgs
               /\ \A k \in DOMAIN sync[p].msgs :
                    k \in sync[p].new <=>
                        /\ sync[p].msgs[k].e.GmailID \notin sync[p].beforeGmail
                        /\ sync[p].msgs[k].pc = "stored"
                        /\ ExistsByGmailID(emails, sync[p].user, sync[p].msgs[k].e.GmailID)

C4_Witness ==
    \E p \in Procs :
        /\ sync[p].pc = "done"
        /\ sync[p].new # {}
        /\ \E k \in DOMAIN sync[p].msgs : sync[p].msgs[k].e.GmailID \in sync[p].beforeGmail

(***************************************************************************)
(* Classification of one backend answer against one category list.         *)
(***************************************************************************)
ClassifyInit ==
    /\ repo = "memory"
    /\ emails = EmptyStore
    /\ SyncIdle
    /\ ClsInit

ClassifyNext ==
    \/ /\ ClsClassify
       /\ UNCHANGED <<storeVars, syncVars, scan, bulk, sseVars, extVars>>
    \/ /\ ClsBackendFails
       /\ UNCHANGED <<storeVars, syncVars, scan, bulk, sseVars, extVars>>

SpecClassify == ClassifyInit /\ [][ClassifyNext]_vars

\* The positions of the category list, and the comparisons the claim speaks of.
ClsNames == [i \in DOMAIN clsCategories |-> clsCategories[i].Name]

EqualIgnoringCase(a, b) == ToLower(a) = ToLower(b)

ContainsEitherWay(a, b) ==
    Contains(ToLower(a), ToLower(b)) \/ Contains(ToLower(b), ToLower(a))

IsFirst(k, S) == k \in S /\ \A j \in S : k <= j

(***************************************************************************)
(* C6 as stated: the chosen category is the first category equal to the    *)
(* response ignoring case if one exists; otherwise the first category such *)
(* that the response contains its name or its name contains the response   *)
(* (ignoring case); otherwise the first category of the list.              *)
(***************************************************************************)
C6_AsStated ==
    clsResult.state = "ok" =>
        LET exact == {i \in DOMAIN ClsNames : EqualIgnoringCase(ClsNames[i], clsResponse)}
            partial == {i \in DOMAIN ClsNames : ContainsEitherWay(ClsNames[i], clsResponse)}
        IN \E k \in DOMAIN clsCategories :
            /\ clsResult.name = ClsNames[k]
            /\ IF exact # {} THEN IsFirst(k, exact)
               ELSE IF partial # {} THEN IsFirst(k, partial)
               ELSE k = 1

(***************************************************************************)
(* C6 as amended: the chosen category name is the name of the first        *)
(* category equal to the response ignoring case and surrounding            *)
(* whitespace if one exists; otherwise of the first category such that,    *)
(* both trimmed and ignoring case, the response contains the name or the   *)
(* name contains the response; otherwise of the first category.  The name  *)
(* is a member of the list, and the category id kept is the id of a        *)
(* category of the list bearing that name.                                 *)
(***************************************************************************)
C6_FallbackOrder ==
    clsResult.state = "ok" =>
        LET resp == TrimSpace(clsResponse)
            exact == {i \in DOMAIN ClsNames : EqualIgnoringCase(TrimSpace(ClsNames[i]), resp)}
            partial == {i \in DOMAIN ClsNames : ContainsEitherWay(TrimSpace(ClsNames[i]), resp)}
        IN /\ \E k \in DOMAIN clsCategories :
                /\ clsResult.name = ClsNames[k]
                /\ IF exact # {} THEN IsFirst(k, exact)
                   ELSE IF partial # {} THEN IsFirst(k, partial)
                   ELSE k = 1
           /\ \E k \in DOMAIN clsCategories :
                clsCategories[k].ID = clsResult.id /\ ClsNames[k] = clsResult.name

\* An answer in another case than the category that equals it, behind a
\* category that merely contains it.
C6_Witness ==
    /\ clsResult.state = "ok"
    /\ Len(clsCategories) > 1
    /\ clsResult.name = ClsNames[2]
    /\ ~EqualIgnoringCase(ClsNames[1], TrimSpace(clsResponse))
    /\ ClsNames[2] # TrimSpace(clsResponse)
    /\ EqualIgnoringCase(ClsNames[2], TrimSpace(clsResponse))
    /\ ContainsEitherWay(ClsNames[1], clsResponse)

(***************************************************************************)
(* One call of the mailbox client on one provider page.                    *)
(***************************************************************************)
MsgIDs == {"m1", "m2", "m3", "m4"}

\* The pages Users.Messages.List can answer with: distinct ids.
ScanPages ==
    {q \in UNION {[1..n -> MsgIDs] : n \in 0..MaxScanLen} :
        \A i, j \in DOMAIN q : q[i] = q[j] => i = j}

ScanInit ==
    /\ repo = "memory"
    /\ emails = EmptyStore
    /\ SyncIdle
    /\ clsCategories = <<>>
    /\ clsResponse = <<>>
    /\ clsResult = NoResult
    /\ bulk = NoBulk
    /\ SSEIdle
    /\ ExtIdle
    /\ \E page \in ScanPages, after \in MsgIDs \cup {""}, failedGet \in SUBSET MsgIDs :
        scan = [page |-> page, after |-> after, failedGet |-> failedGet,
                state |-> "none", out |-> <<>>]

\* gmailClient.SyncEmails after a successful list.
ScanSyncEmails ==
    /\ scan.state = "none"
    /\ scan' = [scan EXCEPT !.state = "ok",
                            !.out = GmailSyncEmails(scan.page, scan.after, scan.failedGet)]
    /\ UNCHANGED <<storeVars, syncVars, clsVars, bulk, sseVars, extVars>>

\* Users.Messages.List fails: SyncEmails returns the error and no message.
ScanListFails ==
    /\ scan.state = "none"
    /\ scan' = [scan EXCEPT !.state = "err"]
    /\ UNCHANGED <<storeVars, syncVars, clsVars, bulk, sseVars, extVars>>

ScanNext == ScanSyncEmails \/ ScanListFails

SpecPage == ScanInit /\ [][ScanNext]_vars

\* The positions of the page the cursor selects.
AfterCursor(page, after) ==
    IF after = "" THEN DOMAIN page
    ELSE {i \in DOMAIN page : \E c \in 1..(i - 1) : page[c] = after}

\* out lists, in page order, exactly the messages at the positions keep.
ListsPositions(out, page, keep) ==
    /\ Len(out) = Cardinality(keep)
    /\ \A i \in keep : \E k \in DOMAIN out : out[k] = page[i]
    /\ \A k, l \in DOMAIN out : k < l =>
        \E i, j \in keep : i < j /\ page[i] = out[k] /\ page[j] = out[l]

Actions == {"archive", "read", "delete", "unsubscribe", "move"}

\* The id sets a call is given, in every order.
Batches ==
    {q \in UNION {[1..n -> StoreIDs] : n \in 0..MaxBatch} :
        \A i, j \in DOMAIN q : q[i] = q[j] => i = j}

RemoteCall(kind, user, e) == [kind |-> kind, mailbox |-> user, gmail |-> e.GmailID, email |-> e.ID]

\* Mutant of BelongsTo: the ownership check always passes.
BelongsToAnyone(e, userID) == TRUE

\* The check "email.UserID != userID -> continue" of the three operations.
BelongsTo(e, userID) == e.UserID = userID

\* The first loop of DeleteEmails and of UnsubscribeEmails: the ids found
\* in the store and owned by the caller, in the order given.
ValidIDs(st, ids, userID) ==
    SelectSeq(ids, LAMBDA i : i \in DOMAIN st /\ BelongsTo(st[i], userID))

\* The loop of unsubscribeService.UnsubscribeEmails: one attempt per valid
\* message, failures logged only.
UnsubscribeCalls(st, ids, userID) ==
    LET valid == ValidIDs(st, ids, userID) IN
    {RemoteCall("unsubscribe", userID, st[valid[k]]) : k \in DOMAIN valid}

\* The loop of PerformBulkAction from the first id of ids on.  fail holds
\* the ids whose remote call fails, dbFail those whose store update fails.
RECURSIVE BulkLoop(_, _, _, _, _, _, _)
BulkLoop(st, ids, action, userID, fail, dbFail, calls) ==
    IF ids = <<>> THEN [st |-> st, calls |-> calls, ret |-> "ok"]
    ELSE LET id == Head(ids)
             rest == Tail(ids)
         IN
         IF id \notin DOMAIN st
         THEN BulkLoop(st, rest, action, userID, fail, dbFail, calls)
         ELSE IF ~BelongsTo(st[id], userID)
         THEN BulkLoop(st, rest, action, userID, fail, dbFail, calls)
         ELSE IF action \in {"archive", "delete"}
         THEN LET made == calls \cup {RemoteCall("ArchiveEmail", userID, st[id])}
                  r == RepoUpdate(repo, st, [st[id] EXCEPT !.Archived = TRUE])
              IN IF id \in fail \/ id \in dbFail
                 THEN BulkLoop(st, rest, action, userID, fail, dbFail, made)
                 ELSE BulkLoop(r.st, rest, action, userID, fail, dbFail, made)
         ELSE IF action = "read"
         THEN BulkLoop(st, rest, action, userID, fail, dbFail,
                       calls \cup {RemoteCall("MarkAsRead", userID, st[id])})
         ELSE IF action = "unsubscribe"
         THEN BulkLoop(st, rest, action, userID, fail, dbFail,
                       calls \cup UnsubscribeCalls(st, <<id>>, userID))
         ELSE [st |-> st, calls |-> calls, ret |-> "err"]

\* The store's own failures (a failing query) exist for PostgreSQL only.
StoreFailures(ids) == IF repo = "postgres" THEN SUBSET SeqRange(ids) ELSE {{}}

\* emailService.PerformBulkAction
PerformBulkAction ==
    /\ bulk.op = "none"
    /\ \E ids \in Batches, action \in Actions, userID \in Callers :
       \E fail \in SUBSET SeqRange(ValidIDs(emails, ids, userID)) :
       \E dbFail \in StoreFailures(ValidIDs(emails, ids, userID)) :
        /\ LET r == IF userID \notin Users
                    THEN [st |-> emails, calls |-> {}, ret |-> "err"]
                    ELSE BulkLoop(emails, ids, action, userID, fail, dbFail, {})
           IN /\ emails' = r.st
              /\ bulk' = [op |-> "PerformBulkAction", action |-> action, caller |-> userID,
                          ids |-> ids, before |-> emails, calls |-> r.calls,
                          remoteFailed |-> {c.email : c \in r.calls} \cap fail,
                          clientErr |-> FALSE, ret |-> r.ret]
        /\ UNCHANGED <<repo, syncVars, clsVars, scan, sseVars, extVars>>

\* The deletion loop of emailService.DeleteEmails over the valid messages.
RECURSIVE DeleteAll(_, _, _)
DeleteAll(st, valid, dbFail) ==
    IF valid = <<>> THEN [st |-> st, errors |-> 0]
    ELSE IF Head(valid) \in dbFail
    THEN LET r == DeleteAll(st, Tail(valid), dbFail) IN
         [st |-> r.st, errors |-> r.errors + 1]
    ELSE DeleteAll(RepoDelete(repo, st, Head(valid)).st, Tail(valid), dbFail)

\* emailService.DeleteEmails.  clientErr: the per-owner mailbox client cannot
\* be built (UserSpecificGmailClient.DeleteEmails); fail: the ids whose
\* remote deletion fails inside gmailClient.DeleteEmails, which logs the
\* failure, goes on and returns nil.
DeleteEmails ==
    /\ bulk.op = "none"
    /\ \E ids \in Batches, userID \in Callers, clientErr \in BOOLEAN :
       \E fail \in SUBSET SeqRange(ValidIDs(emails, ids, userID)) :
       \E dbFail \in StoreFailures(ValidIDs(emails, ids, userID)) :
        /\ LET valid == ValidIDs(emails, ids, userID)
               calls == {RemoteCall("DeleteEmails", userID, emails[valid[k]]) : k \in DOMAIN valid}
               done == DeleteAll(emails, valid, dbFail)
               r == IF valid = <<>> THEN [st |-> emails, calls |-> {}, ret |-> "ok"]
                    ELSE IF userID \notin Users THEN [st |-> emails, calls |-> {}, ret |-> "err"]
                    ELSE IF clientErr THEN [st |-> emails, calls |-> {}, ret |-> "err"]
                    ELSE [st |-> done.st, calls |-> calls,
                          ret |-> IF done.errors > 0 THEN "err" ELSE "ok"]
           IN /\ emails' = r.st
              /\ bulk' = [op |-> "DeleteEmails", action |-> "", caller |-> userID,
                          ids |-> ids, before |-> emails, calls |-> r.calls,
                          remoteFailed |-> {c.email : c \in r.calls} \cap fail,
                          clientErr |-> clientErr /\ valid # <<>> /\ userID \in Users,
                          ret |-> r.ret]
        /\ UNCHANGED <<repo, syncVars, clsVars, scan, sseVars, extVars>>

\* unsubscribeService.UnsubscribeEmails.  fail: the valid messages whose
\* processEmailUnsubscribe returns an error, which is logged.
UnsubscribeEmails ==
    /\ bulk.op = "none"
    /\ \E ids \in Batches, userID \in Callers :
       \E fail \in SUBSET SeqRange(ValidIDs(emails, ids, userID)) :
        /\ bulk' = [op |-> "UnsubscribeEmails", action |-> "", caller |-> userID,
                    ids |-> ids, before |-> emails,
                    calls |-> UnsubscribeCalls(emails, ids, userID),
                    remoteFailed |-> fail, clientErr |-> FALSE, ret |-> "ok"]
        /\ UNCHANGED <<storeVars, syncVars, clsVars, scan, sseVars, extVars>>

\* The call returns to the handler.
BulkReturn ==
    /\ bulk.op # "none"
    /\ bulk' = NoBulk
    /\ UNCHANGED <<storeVars, syncVars, clsVars, scan, sseVars, extVars>>

\* Messages get into the store between bulk calls: emailRepo.Create of a new,
\* unarchived message under a fresh id.
BulkStore ==
    /\ bulk.op = "none"
    /\ \E e \in EmailInputs :
        /\ ~e.Archived
        /\ e.ID \notin DOMAIN emails
        /\ \A i \in StoreIDs : i < e.ID => i \in DOMAIN emails
        /\ emails' = RepoCreate(repo, emails, e).st
        /\ UNCHANGED <<repo, syncVars, clsVars, scan, bulk, sseVars, extVars>>

BulkNext ==
    \/ BulkStore
    \/ PerformBulkAction
    \/ DeleteEmails
    \/ UnsubscribeEmails
    \/ BulkReturn

SpecBulk == StoreInit /\ [][BulkNext]_vars

\* The ids of the batch that name a stored message of another owner than the caller.
ForeignIDs ==
    {i \in SeqRange(bulk.ids) : i \in DOMAIN bulk.before /\ bulk.before[i].UserID # bulk.caller}

\* The ids of the batch that name a stored message of the caller.
OwnIDs ==
    {i \in SeqRange(bulk.ids) : i \in DOMAIN bulk.before /\ bulk.before[i].UserID = bulk.caller}

(***************************************************************************)
(* C8: when DeleteEmails is called on a batch and the remote deletion      *)
(* fails for any message of the batch, none of the batch's messages is     *)
(* deleted from the local store and the call returns an error.             *)
(***************************************************************************)
C8_DeleteAtomicity ==
    (bulk.op = "DeleteEmails" /\ (bulk.remoteFailed # {} \/ bulk.clientErr)) =>
        /\ bulk.ret = "err"
        /\ \A i \in SeqRange(bulk.ids) : i \in DOMAIN bulk.before => i \in DOMAIN emails

(***************************************************************************)
(* C9: for PerformBulkAction, DeleteEmails and UnsubscribeEmails invoked   *)
(* by an owner with any batch of ids, a message of another owner is        *)
(* neither changed nor deleted in the store, no remote mailbox call and no *)
(* unsubscribe request is made for it, and a call whose batch names no     *)
(* message of the caller returns no error (unless the caller is unknown).  *)
(***************************************************************************)
C9_OwnershipIsolation ==
    bulk.op # "none" =>
        /\ \A i \in DOMAIN bulk.before :
            bulk.before[i].UserID # bulk.caller =>
                i \in DOMAIN emails /\ emails[i] = bulk.before[i]
        /\ \A c \in bulk.calls :
            c.email \in DOMAIN bulk.before /\ bulk.before[c.email].UserID = bulk.caller
        /\ (bulk.ret = "err" /\ bulk.caller \in Users) => OwnIDs # {}

\* A batch naming a message of the caller and one of another owner: the
\* caller's message is acted upon, remotely and in the store.
C9_Witness ==
    /\ bulk.op \in {"PerformBulkAction", "DeleteEmails"}
    /\ ForeignIDs # {}
    /\ OwnIDs # {}
    /\ bulk.calls # {}
    /\ emails # bulk.before
    /\ bulk.ret = "ok"

(***************************************************************************)
(* The realtime broadcaster: SSE connections registering and draining      *)
(* their sink, deliveries to an owner, Close.  AddClient, RemoveClient and *)
(* Close run under the write lock and are one step each; a delivery holds  *)
(* the read lock from its first step to its last.                          *)
(***************************************************************************)
EventTypes == {"email_summary"}
EventData == {"e1", "e2"}
SummaryData == {"s1"}

Buffered(c) == Len(chans[c].sent) - chans[c].read

HasRoom(c) == Buffered(c) < ChanCap

\* clientsMux.Lock() can be taken: no delivery holds the read lock.
CanLock == clientsMux.readers = {}

\* SSEManager.AddClient, called by the handler of connection c for owner u.
\* Connections are numbered in the order of their AddClient.
AddClient(c, u) ==
    /\ conns[c].pc = "new"
    /\ \A d \in Conns : d < c => conns[d].pc # "new"
    /\ CanLock
    /\ clients' = [v \in DOMAIN clients \cup {u} |->
                      IF v = u
                      THEN (IF u \in DOMAIN clients THEN clients[u] ELSE {}) \cup {c}
                      ELSE clients[v]]
    /\ chans' = [chans EXCEPT ![c].made = TRUE]
    /\ conns' = [conns EXCEPT ![c] = [pc |-> "listening", user |-> u]]
    /\ UNCHANGED <<clientsMux, bc, sends, nonSSEVars>>

\* The handler's loop takes one event from its sink and writes it out.
HandlerRecv(c) ==
    /\ conns[c].pc = "listening"
    /\ Buffered(c) > 0
    /\ chans' = [chans EXCEPT ![c].read = @ + 1]
    /\ UNCHANGED <<clients, clientsMux, conns, bc, sends, nonSSEVars>>

\* Mutant of RemoveClient: the owner's entry stays when its last sink goes.
RemoveClientKeepsEntry(c) ==
    /\ conns[c].pc = "listening"
    /\ CanLock
    /\ LET u == conns[c].user IN
       IF u \in DOMAIN clients
       THEN /\ chans' = [chans EXCEPT ![c].closes = @ + 1]
            /\ clients' = [clients EXCEPT ![u] = @ \ {c}]
       ELSE UNCHANGED <<chans, clients>>
    /\ conns' = [conns EXCEPT ![c].pc = "gone"]
    /\ UNCHANGED <<clientsMux, bc, sends, nonSSEVars>>

\* The request's context ends: the deferred SSEManager.RemoveClient runs.
RemoveClient(c) ==
    /\ conns[c].pc = "listening"
    /\ CanLock
    /\ LET u == conns[c].user IN
       IF u \in DOMAIN clients
       THEN /\ chans' = [chans EXCEPT ![c].closes = @ + 1]
            /\ clients' = IF clients[u] \ {c} = {}
                          THEN [v \in DOMAIN clients \ {u} |-> clients[v]]
                          ELSE [clients EXCEPT ![u] = @ \ {c}]
       ELSE UNCHANGED <<chans, clients>>
    /\ conns' = [conns EXCEPT ![c].pc = "gone"]
    /\ UNCHANGED <<clientsMux, bc, sends, nonSSEVars>>

\* SSEManager.Close
Close ==
    /\ CanLock
    /\ DOMAIN clients # {}
    /\ chans' = [c \in Conns |->
                    IF \E u \in DOMAIN clients : c \in clients[u]
                    THEN [chans[c] EXCEPT !.closes = @ + 1]
                    ELSE chans[c]]
    /\ clients' = [u \in {} |-> {}]
    /\ UNCHANGED <<clientsMux, conns, bc, sends, nonSSEVars>>

\* Mutant of UserClients: the sinks of every owner.
UserClientsOfAll(userID) == UNION {clients[v] : v \in DOMAIN clients}

\* userClients, exists := s.clients[userID], for an owner with an entry.
UserClients(userID) == clients[userID]

\* Mutant of Broadcast: a delivery to an owner without an entry keeps the read lock.
BroadcastKeepsLock(p, userID, type, data) ==
    /\ bc[p].pc = "idle"
    /\ sends < MaxSends
    /\ sends' = sends + 1
    /\ LET event == [type |-> type, data |-> data, n |-> sends + 1] IN
       IF userID \notin DOMAIN clients
       THEN /\ UNCHANGED bc
            /\ clientsMux' = [clientsMux EXCEPT !.readers = @ \cup {p}]
       ELSE /\ bc' = [bc EXCEPT ![p] = [IdleSender EXCEPT !.pc = "loop", !.user = userID,
                                                          !.event = event,
                                                          !.todo = UserClients(userID),
                                                          !.snapshot = clients[userID]]]
            /\ clientsMux' = [clientsMux EXCEPT !.readers = @ \cup {p}]
    /\ UNCHANGED <<clients, chans, conns, nonSSEVars>>

\* BroadcastEmailToUser / BroadcastToUser up to the loop: the read lock is
\* taken; without an entry for the owner the call returns at once.
Broadcast(p, userID, type, data) ==
    /\ bc[p].pc = "idle"
    /\ sends < MaxSends
    /\ sends' = sends + 1
    /\ LET event == [type |-> type, data |-> data, n |-> sends + 1] IN
       IF userID \notin DOMAIN clients
       THEN UNCHANGED <<bc, clientsMux>>
       ELSE /\ bc' = [bc EXCEPT ![p] = [IdleSender EXCEPT !.pc = "loop", !.user = userID,
                                                          !.event = event,
                                                          !.todo = UserClients(userID),
                                                          !.snapshot = clients[userID]]]
            /\ clientsMux' = [clientsMux EXCEPT !.readers = @ \cup {p}]
    /\ UNCHANGED <<clients, chans, conns, nonSSEVars>>

BroadcastEmailToUser(p, userID, email) == Broadcast(p, userID, "new_email", email)

BroadcastToUser(p, userID, eventType, data) == Broadcast(p, userID, eventType, data)

\* channel <- jsonData
Send(c, event) == [chans EXCEPT ![c].sent = Append(@, event)]

\* The loop reaches a sink, in the map's order (any): the select sends at
\* once when the sink has room, and waits otherwise.
BroadcastNext(p) ==
    /\ bc[p].pc = "loop"
    /\ \E c \in bc[p].todo :
        IF HasRoom(c)
        THEN /\ chans' = Send(c, bc[p].event)
             /\ bc' = [bc EXCEPT ![p].todo = @ \ {c}, ![p].free = @ \cup {c}]
        ELSE /\ bc' = [bc EXCEPT ![p].todo = @ \ {c}, ![p].pc = "wait", ![p].cur = c]
             /\ UNCHANGED chans
    /\ UNCHANGED <<clients, clientsMux, conns, sends, nonSSEVars>>

\* The handler made room while the select was waiting: the send goes through.
BroadcastWaitSend(p) ==
    /\ bc[p].pc = "wait"
    /\ HasRoom(bc[p].cur)
    /\ chans' = Send(bc[p].cur, bc[p].event)
    /\ bc' = [bc EXCEPT ![p].pc = "loop", ![p].cur = 0]
    /\ UNCHANGED <<clients, clientsMux, conns, sends, nonSSEVars>>

\* time.After(5 * time.Second) fires with the sink still full.
BroadcastTimeout(p) ==
    /\ bc[p].pc = "wait"
    /\ ~HasRoom(bc[p].cur)
    /\ bc' = [bc EXCEPT ![p].pc = "loop", ![p].cur = 0]
    /\ UNCHANGED <<clients, chans, clientsMux, conns, sends, nonSSEVars>>

\* The loop is over: the deferred RUnlock runs and the call returns.
BroadcastEnd(p) ==
    /\ bc[p].pc = "loop"
    /\ bc[p].todo = {}
    /\ bc' = [bc EXCEPT ![p] = IdleSender]
    /\ clientsMux' = [clientsMux EXCEPT !.readers = @ \ {p}]
    /\ UNCHANGED <<clients, chans, conns, sends, nonSSEVars>>

SSENext ==
    \/ \E c \in Conns, u \in Users : AddClient(c, u)
    \/ \E c \in Conns : HandlerRecv(c)
    \/ \E c \in Conns : RemoveClient(c)
    \/ Close
    \/ \E p \in Senders, u \in Users, e \in EventData : BroadcastEmailToUser(p, u, e)
    \/ \E p \in Senders, u \in Users, t \in EventTypes, d \in SummaryData :
        BroadcastToUser(p, u, t, d)
    \/ \E p \in Senders : BroadcastNext(p)
    \/ \E p \in Senders : BroadcastWaitSend(p)
    \/ \E p \in Senders : BroadcastTimeout(p)
    \/ \E p \in Senders : BroadcastEnd(p)

SSEInit ==
    /\ repo = "memory"
    /\ emails = EmptyStore
    /\ SyncIdle
    /\ ClsIdle

SpecSSE == SSEInit /\ [][SSENext]_vars

\* Delivery p has been through every sink of its snapshot and is about to return.
Delivered(p) == bc[p].pc = "loop" /\ bc[p].todo = {}

\* How many times delivery n was put on sink c.
Placed(c, n) == Cardinality({i \in DOMAIN chans[c].sent : chans[c].sent[i].n = n})

(***************************************************************************)
(* C10: a delivery of a message to owner u places exactly one new_email    *)
(* event carrying that message on every sink registered for u that has     *)
(* free capacity when the delivery reaches it, at most one on u's other    *)
(* sinks, and nothing on a sink that is not u's.                           *)
(***************************************************************************)
C10_FanOut ==
    \A p \in Senders :
        (Delivered(p) /\ bc[p].event.type = "new_email") =>
            \A c \in Conns :
                /\ (c \in bc[p].snapshot /\ c \in bc[p].free) =>
                    /\ Placed(c, bc[p].event.n) = 1
                    /\ \E i \in DOMAIN chans[c].sent : chans[c].sent[i] = bc[p].event
                /\ c \in bc[p].snapshot => Placed(c, bc[p].event.n) <= 1
                /\ (c \notin bc[p].snapshot \/ conns[c].user # bc[p].user) =>
                    Placed(c, bc[p].event.n) = 0

\* A delivery to an owner with two sinks, one with room and one full, while
\* another owner has a sink too.
C10_Witness ==
    \E p \in Senders :
        /\ Delivered(p)
        /\ bc[p].event.type = "new_email"
        /\ Cardinality(bc[p].snapshot) = 2
        /\ Cardinality(bc[p].free) = 1
        /\ \E c \in Conns : chans[c].made /\ conns[c].user # bc[p].user

(***************************************************************************)
(* C11: while a delivery waits for the timeout of a stalled sink (its      *)
(* buffer is full), the owner's other sinks are not kept waiting: every    *)
(* other sink of the delivery that has room has received the event.        *)
(***************************************************************************)
C11_StalledSinkDoesNotBlock ==
    \A p \in Senders :
        (bc[p].pc = "wait" /\ ~HasRoom(bc[p].cur)) =>
            \A c \in bc[p].snapshot \ {bc[p].cur} :
                HasRoom(c) => Placed(c, bc[p].event.n) = 1

\* A delivery call is made in this step.
DeliveryCalled == sends' = sends + 1

\* The call made in this step has returned within it, the manager untouched.
ReturnedAtOnce ==
    /\ bc' = bc
    /\ clients' = clients
    /\ chans' = chans
    /\ clientsMux' = clientsMux

\* The call made in this step is for an owner who has a sink registered.
OwnerHasSinks ==
    \E p \in Senders :
        /\ bc[p].pc = "idle"
        /\ bc'[p].pc = "loop"
        /\ bc'[p].user \in DOMAIN clients
        /\ clients[bc'[p].user] # {}

GetUserConnectionCount(userID) ==
    IF userID \in DOMAIN clients THEN Cardinality(clients[userID]) ELSE 0

\* SSEManager.HasUserConnection
HasUserConnection(userID) == GetUserConnectionCount(userID) > 0

\* The sinks added for u that neither RemoveClient nor Close has taken away.
AddedNotRemoved(u) ==
    {c \in Conns : conns[c].pc = "listening" /\ conns[c].user = u /\ chans[c].closes = 0}

(***************************************************************************)
(* C13: after any sequence of AddClient, RemoveClient and Close,           *)
(* GetUserConnectionCount(u) is the number of sinks added for u and not    *)
(* yet removed (by RemoveClient, or by Close, which removes them all),     *)
(* HasUserConnection(u) holds exactly when that number is positive, a      *)
(* removed sink is closed, and no owner entry has an empty sink set.       *)
(***************************************************************************)
C13_RegistryInvariant ==
    /\ \A u \in Users :
        /\ GetUserConnectionCount(u) = Cardinality(AddedNotRemoved(u))
        /\ HasUserConnection(u) <=> AddedNotRemoved(u) # {}
        /\ u \in DOMAIN clients => clients[u] = AddedNotRemoved(u)
    /\ \A c \in Conns : conns[c].pc = "gone" => chans[c].closes >= 1
    /\ \A u \in DOMAIN clients : clients[u] # {}

\* An owner with two sinks added and one of them removed since, and another
\* owner whose only sink was removed.
C13_Witness ==
    \E u \in Users :
        /\ GetUserConnectionCount(u) = 1
        /\ \E c \in Conns : conns[c].pc = "gone" /\ conns[c].user = u /\ chans[c].closes = 1
        /\ \E v \in Users \ {u}, d \in Conns :
            conns[d].user = v /\ conns[d].pc = "gone" /\ v \notin DOMAIN clients

-----------------------------------------------------------------------------
\* Unsubscribe automation (internal/service/email_service.go).
\*
\* A candidate page is described by what the handler observes of it: the
\* outcome of the fetch, whether doc.Find("form") finds a form, what each of
\* the nine selectors of unsubSelectors finds first, and the answers of the
\* servers and of the inference client to the requests the handler may make.

\* unsubSelectors: the kind of element each selector can match.
UnsubSelectors == <<"input", "input", "input", "button", "button", "button", "a", "a", "a">>

MaxMatches == 2

Selectors == 1..Len(UnsubSelectors)
AnchorSelectors == {k \in Selectors : UnsubSelectors[k] = "a"}

\* What doc.Find(selector).First() yields per selector: nothing, a submit
\* input or button ("control"), an anchor without href, an anchor with href.
PageElems ==
    {[k \in Selectors |->
        IF k \notin S THEN "none"
        ELSE IF k \notin AnchorSelectors THEN "control"
        ELSE IF k \in H THEN "href" ELSE "nohref"] :
      S \in {T \in SUBSET Selectors : Cardinality(T) <= MaxMatches},
      H \in SUBSET AnchorSelectors}

\* What the inference client answers, as a text made of the words the
\* handler looks for, a space and any other text.
MaxRespLen == 2
AIWords == {" ", "CLICK:", "FORM:", "CONFIRMED", "x"}
AIResponses == UNION {[1..n -> AIWords] : n \in 0..MaxRespLen}

\* strings.HasPrefix(action, word)
HasPrefix(action, word) == action # <<>> /\ Head(action) = word

\* The answers the handler dispatches to performClickAction or performFormAction.
Dispatched(response) ==
    HasPrefix(TrimSpace(response), "CLICK:") \/ HasPrefix(TrimSpace(response), "FORM:")

Targets == {"refetchFailed", "none", "href", "inform", "bare"}

NoElems == [k \in Selectors |-> "none"]
BlankPage ==
    [get |-> "ok", form |-> FALSE, elems |-> NoElems, submit2xx |-> FALSE,
     link2xx |-> FALSE, aiErr |-> FALSE, ai |-> <<>>, target |-> "none"]

\* The candidate pages, each answer drawn only where the handler can consult
\* it; the texts of the inference client are enumerated on the page without
\* any unsubscribe-labelled element.
UnsubPages ==
    {[BlankPage EXCEPT !.get = g] : g \in {"err", "non2xx", "unreadable"}}
    \cup {[BlankPage EXCEPT !.form = TRUE, !.submit2xx = b] : b \in BOOLEAN}
    \cup {[BlankPage EXCEPT !.elems = e, !.link2xx = b] :
            e \in {f \in PageElems : \E k \in Selectors : f[k] = "href"}, b \in BOOLEAN}
    \cup {[BlankPage EXCEPT !.elems = e, !.aiErr = TRUE] :
            e \in {f \in PageElems : \A k \in Selectors : f[k] # "href"}}
    \cup {[BlankPage EXCEPT !.ai = a] : a \in {r \in AIResponses : ~Dispatched(r)}}
    \cup {[BlankPage EXCEPT !.ai = a, !.target = t, !.submit2xx = b, !.link2xx = b] :
            a \in {r \in AIResponses : Dispatched(r)}, t \in Targets, b \in BOOLEAN}

Result(ok, calls) == [ok |-> ok, calls |-> calls]

\* handleUnsubscribeForm: one request to the form's action; 2xx is success.
handleUnsubscribeForm(page, calls) == Result(page.submit2xx, Append(calls, "submit"))

\* handleUnsubscribeLink: one GET of the link; 2xx is success.
handleUnsubscribeLink(page, calls) == Result(page.link2xx, Append(calls, "link"))

\* performClickAction: fetch the page again, locate the element; an anchor
\* with href is followed, an element inside a form submits that form.
performClickAction(page, calls) ==
    LET again == Append(calls, "GET")
    IN  IF page.target \in {"refetchFailed", "none"} THEN Result(FALSE, again)
        ELSE IF page.target = "href" THEN handleUnsubscribeLink(page, again)
        ELSE IF page.target = "inform" THEN handleUnsubscribeForm(page, again)
        ELSE Result(FALSE, again)

\* performFormAction: fetch the page again; whatever the selector finds is
\* handed to handleUnsubscribeForm.
performFormAction(page, calls) ==
    LET again == Append(calls, "GET")
    IN  IF page.target \in {"refetchFailed", "none"} THEN Result(FALSE, again)
        ELSE handleUnsubscribeForm(page, again)

\* Mutant of handleUnsubscribeWithAI: an answer that is no directive is
\* taken as a confirmation.
handleUnsubscribeWithAILenient(page, calls) ==
    LET asked == Append(calls, "AI")
        action == TrimSpace(page.ai)
    IN  IF page.aiErr THEN Result(FALSE, asked)
        ELSE IF HasPrefix(action, "CLICK:") THEN performClickAction(page, asked)
        ELSE IF HasPrefix(action, "FORM:") THEN performFormAction(page, asked)
        ELSE Result(TRUE, asked)

\* handleUnsubscribeWithAI: one SummarizeEmail call, then the dispatch on
\* the trimmed answer.
handleUnsubscribeWithAI(page, calls) ==
    LET asked == Append(calls, "AI")
        action == TrimSpace(page.ai)
    IN  IF page.aiErr THEN Result(FALSE, asked)
        ELSE IF HasPrefix(action, "CLICK:") THEN performClickAction(page, asked)
        ELSE IF HasPrefix(action, "FORM:") THEN performFormAction(page, asked)
        ELSE IF action = <<"CONFIRMED">> THEN Result(TRUE, asked)
        ELSE Result(FALSE, asked)

\* The loop over unsubSelectors, from selector k on: the first anchor found
\* with an href is followed; a control submits its closest form, which exists
\* only on a page that has a form; anything else moves to the next selector.
RECURSIVE SelectorLoop(_, _)
SelectorLoop(page, k) ==
    IF k > Len(UnsubSelectors) THEN "ai"
    ELSE IF page.elems[k] = "href" THEN "link"
    ELSE IF page.elems[k] = "control" /\ page.form THEN "form"
    ELSE SelectorLoop(page, k + 1)

\* Mutant of handleUnsubscribeURL: a page without a form goes to the
\* inference client without looking for a control.
handleUnsubscribeURLSkipsControls(page) ==
    LET got == <<"GET">>
    IN  IF page.get # "ok" THEN Result(FALSE, got)
        ELSE IF page.form THEN handleUnsubscribeForm(page, got)
        ELSE handleUnsubscribeWithAI(page, got)

handleUnsubscribeURL(page) ==
    LET got == <<"GET">>
        found == SelectorLoop(page, 1)
    IN  IF page.get # "ok" THEN Result(FALSE, got)
        ELSE IF page.form THEN handleUnsubscribeForm(page, got)
        ELSE IF found = "link" THEN handleUnsubscribeLink(page, got)
        ELSE IF found = "form" THEN handleUnsubscribeForm(page, got)
        ELSE handleUnsubscribeWithAI(page, got)

\* A control the handler can follow: an anchor found with an href.
Followable(page) == \E k \in Selectors : page.elems[k] = "href"

\* Mutant of UnsubStart: a message without candidates is probed anyway.
UnsubStartProbes(n) ==
    /\ unsub.pc = "idle"
    /\ unsub' = IF n = 0
                THEN [unsub EXCEPT !.pc = "done", !.n = 0, !.log = <<"GET">>, !.ret = "err"]
                ELSE [unsub EXCEPT !.pc = "loop", !.n = n, !.i = 1]
    /\ UNCHANGED <<storeVars, syncVars, clsVars, scan, bulk, sseVars, mime, text, job, ckpt, req, ticker>>

\* processEmailUnsubscribe up to the loop: findUnsubscribeLinks yields n
\* candidates; none is an error returned at once.
UnsubStart(n) ==
    /\ unsub.pc = "idle"
    /\ unsub' = IF n = 0
                THEN [unsub EXCEPT !.pc = "done", !.n = 0, !.ret = "err"]
                ELSE [unsub EXCEPT !.pc = "loop", !.n = n, !.i = 1]
    /\ UNCHANGED <<storeVars, syncVars, clsVars, scan, bulk, sseVars, mime, text, job, ckpt, req, ticker>>

\* The requests of a candidate that are not bound to the caller's context:
\* the page fetches made with httpClient.Get.
WithoutContext(calls) == SelectSeq(calls, LAMBDA c : c = "GET")

\* What a candidate answers once the context is cancelled: the requests
\* built with the context (form submission, link, inference) return its error.
CtxDone(page) == [page EXCEPT !.submit2xx = FALSE, !.link2xx = FALSE, !.aiErr = TRUE]

\* The caller's context is cancelled while the loop runs.
UnsubCancel ==
    /\ unsub.pc = "loop"
    /\ ~unsub.cancelled
    /\ unsub' = [unsub EXCEPT !.cancelled = TRUE]
    /\ UNCHANGED <<storeVars, syncVars, clsVars, scan, bulk, sseVars, mime, text, job, ckpt, req, ticker>>

\* Mutant of LoopEnds: the loop goes on after a success.
LoopEndsAtLast(ok, i, n) == i = n

\* The loop over unsubscribeURLs ends at the first candidate that succeeds
\* (return nil) or after the last one.
LoopEnds(ok, i, n) == ok \/ i = n

\* One iteration of the loop of processEmailUnsubscribe: the next candidate
\* is handled; success returns, failure moves on, the last failure returns
\* the aggregated error.
UnsubTryURL ==
    /\ unsub.pc = "loop"
    /\ \E seenPage \in UnsubPages :
        LET page == IF unsub.cancelled THEN CtxDone(seenPage) ELSE seenPage
            r == handleUnsubscribeURL(page)
            seen == [got |-> page.get = "ok", form |-> page.form,
                     followable |-> Followable(page),
                     formOK |-> page.form /\ page.submit2xx]
            asked == \E k \in DOMAIN r.calls : r.calls[k] = "AI"
            answer == IF asked
                      THEN [asked |-> TRUE, err |-> page.aiErr,
                            text |-> IF page.aiErr THEN <<>> ELSE page.ai,
                            target |-> IF ~page.aiErr /\ Dispatched(page.ai)
                                       THEN page.target ELSE "none"]
                      ELSE NoAnswer
        IN  unsub' = [unsub EXCEPT
                        !.calls = r.calls,
                        !.log = unsub.log \o r.calls,
                        !.seen = seen,
                        !.answer = answer,
                        !.ok = r.ok,
                        !.afterCancel = IF unsub.cancelled
                                        THEN @ \o WithoutContext(r.calls) ELSE @,
                        !.tried = Append(@, [c |-> unsub.i, ok |-> r.ok]),
                        !.pc = IF LoopEnds(r.ok, unsub.i, unsub.n) THEN "done" ELSE "loop",
                        !.i = IF LoopEnds(r.ok, unsub.i, unsub.n) THEN unsub.i ELSE unsub.i + 1,
                        !.ret = IF r.ok THEN "ok"
                                ELSE IF unsub.i = unsub.n THEN "err" ELSE "none"]
    /\ UNCHANGED <<storeVars, syncVars, clsVars, scan, bulk, sseVars, mime, text, job, ckpt, req, ticker>>

\* The caller takes the result.
UnsubReturn ==
    /\ unsub.pc = "done"
    /\ unsub' = NoUnsub
    /\ UNCHANGED <<storeVars, syncVars, clsVars, scan, bulk, sseVars, mime, text, job, ckpt, req, ticker>>

UnsubNext ==
    \/ \E n \in 0..MaxURLs : UnsubStart(n)
    \/ UnsubTryURL
    \/ UnsubCancel
    \/ UnsubReturn

UnsubInit ==
    /\ repo = "memory"
    /\ emails = EmptyStore
    /\ SyncIdle
    /\ ClsIdle

SpecUnsub == UnsubInit /\ [][UnsubNext]_vars

InCalls(kind) == \E k \in 1..Len(unsub.calls) : unsub.calls[k] = kind

C15_NoCandidates ==
    unsub.n = 0 =>
        /\ unsub.pc \in {"idle", "done"}
        /\ unsub.log = <<>>
        /\ unsub.calls = <<>>
        /\ unsub.pc = "done" => unsub.ret = "err"

C15_Witness == unsub.pc = "done" /\ unsub.n = 0 /\ unsub.ret = "err" /\ unsub.log = <<>>

-----------------------------------------------------------------------------
\* Plain text to HTML (gmail client, textToHtml).
\*
\* A text is a sequence of characters; an HTML string is a sequence of
\* pieces, each a character of content, an entity or a tag.

NewLine == "\n"
TextChars == {"a", "b", "<", " ", NewLine}
Texts == UNION {[1..n -> TextChars] : n \in 0..MaxTextLen}

\* strings.Split(text, "\n"): a text without separator is one line.
RECURSIVE SplitLines(_)
SplitLines(str) ==
    IF \A i \in DOMAIN str : str[i] # NewLine THEN <<str>>
    ELSE LET k == CHOOSE i \in DOMAIN str :
                    str[i] = NewLine /\ \A j \in 1..(i - 1) : str[j] # NewLine
         IN  <<SubSeq(str, 1, k - 1)>> \o SplitLines(SubSeq(str, k + 1, Len(str)))

\* html.EscapeString on one character.
EscapeChar(c) == IF c = "<" THEN "&lt;" ELSE c

\* html.EscapeString
EscapeString(str) == [i \in DOMAIN str |-> EscapeChar(str[i])]

\* The loop of textToHtml from line i on.
RECURSIVE TextLoop(_, _, _)
TextLoop(lines, i, result) ==
    IF i > Len(lines) THEN result
    ELSE LET line == TrimSpace(lines[i]) IN
         IF line # <<>>
         THEN TextLoop(lines, i + 1, result \o <<"<p>">> \o EscapeString(line) \o <<"</p>">>)
         ELSE IF i > 1 /\ i < Len(lines)
         THEN TextLoop(lines, i + 1, result \o <<"<p>", "&nbsp;", "</p>">>)
         ELSE TextLoop(lines, i + 1, result)

\* Mutant of textToHtml: the lines are wrapped as they are, unescaped.
textToHtmlRaw(str) ==
    LET lines == SplitLines(str)
        RECURSIVE Raw(_, _)
        Raw(i, result) ==
            IF i > Len(lines) THEN result
            ELSE LET line == TrimSpace(lines[i]) IN
                 IF line # <<>>
                 THEN Raw(i + 1, result \o <<"<p>">> \o line \o <<"</p>">>)
                 ELSE IF i > 1 /\ i < Len(lines)
                 THEN Raw(i + 1, result \o <<"<p>", "&nbsp;", "</p>">>)
                 ELSE Raw(i + 1, result)
    IN  Raw(1, <<>>)

textToHtml(str) == TextLoop(SplitLines(str), 1, <<>>)

TextConvert ==
    /\ ~text.done
    /\ text' = [text EXCEPT !.out = textToHtml(text.in), !.done = TRUE]
    /\ UNCHANGED <<nonSSEVarsButText, sseVars>>

TextNext == TextConvert

TextInit ==
    /\ repo = "memory"
    /\ emails = EmptyStore
    /\ CoreIdle
    /\ unsub = NoUnsub
    /\ mime = NoMime
    /\ job = NoJob
    /\ ckpt = NoCkpt
    /\ req = NoReq
    /\ ticker = NoTicker
    /\ text \in {[in |-> t, out |-> <<>>, done |-> FALSE] : t \in Texts}

SpecText == TextInit /\ [][TextNext]_vars

Blank(line) == TrimSpace(line) = <<>>

\* The lines of the input.
InLines == SplitLines(text.in)

\* The input is made of single-line paragraphs with one blank line between
\* two consecutive ones: lines 1, 3, 5, ... hold content, lines 2, 4, ... are blank.
SingleLineParagraphs ==
    /\ Len(InLines) % 2 = 1
    /\ \A i \in DOMAIN InLines : Blank(InLines[i]) <=> (i % 2 = 0)

\* The input is made of paragraphs, each one or more lines of content, with
\* one blank line between two consecutive ones.
Paragraphs ==
    /\ ~Blank(InLines[1])
    /\ ~Blank(InLines[Len(InLines)])
    /\ \A i \in 1..(Len(InLines) - 1) : ~(Blank(InLines[i]) /\ Blank(InLines[i + 1]))

\* The number of paragraphs of such an input: one more than its blank lines.
ParagraphCount == 1 + Cardinality({i \in DOMAIN InLines : Blank(InLines[i])})

\* The paragraph-wrapped content segments of the output, in order: what
\* stands between a <p> and the next </p>, spacers left out.
RECURSIVE Segments(_)
Segments(out) ==
    IF out = <<>> THEN <<>>
    ELSE IF Head(out) = "<p>"
    THEN LET close == CHOOSE i \in DOMAIN out :
                        out[i] = "</p>" /\ \A j \in 1..(i - 1) : out[j] # "</p>"
             inner == SubSeq(out, 2, close - 1)
             rest == Segments(SubSeq(out, close + 1, Len(out)))
         IN  IF inner = <<"&nbsp;">> THEN rest ELSE <<inner>> \o rest
    ELSE Segments(Tail(out))

\* The output expected for lines i.. of an input of single-line paragraphs.
RECURSIVE ExpectedFrom(_, _)
ExpectedFrom(lines, i) ==
    IF i > Len(lines) THEN <<>>
    ELSE (IF i % 2 = 1
          THEN <<"<p>">> \o EscapeString(TrimSpace(lines[i])) \o <<"</p>">>
          ELSE <<"<p>", "&nbsp;", "</p>">>)
         \o ExpectedFrom(lines, i + 1)

-----------------------------------------------------------------------------
\* Body decoding (gmail client, extractBody).
\*
\* Body.Data is empty or one encoded character: "A" and "B" decode to "a"
\* and "b", "!" is outside the base64 alphabet and makes the decoding fail.

B64Chars == {"A", "B", "!"}
Datas == {<<>>} \cup {<<c>> : c \in B64Chars}

B64Value(c) == IF c = "A" THEN "a" ELSE "b"

\* base64.URLEncoding.DecodeString
DecodeString(data) ==
    IF \E i \in DOMAIN data : data[i] = "!"
    THEN [err |-> TRUE, str |-> <<>>]
    ELSE [err |-> FALSE, str |-> [i \in DOMAIN data |-> B64Value(data[i])]]

MimeTypes == {"text/html", "text/plain", "image/png"}

\* Parts without parts of their own; an image carries its data elsewhere or inline.
LeafParts ==
    {[MimeType |-> m, Data |-> d, Parts |-> <<>>] : m \in {"text/html", "text/plain"}, d \in Datas}
    \cup {[MimeType |-> "image/png", Data |-> <<"A">>, Parts |-> <<>>]}

PartLists(S, max) == UNION {[1..n -> S] : n \in 1..max}

NestedParts ==
    {[MimeType |-> "multipart/alternative", Data |-> <<>>, Parts |-> ps] :
        ps \in PartLists(LeafParts, MaxParts - 1)}

\* The payloads: a single part, or a multipart whose parts are leaves or multiparts of leaves.
Payloads ==
    LeafParts
    \cup {[MimeType |-> "multipart/mixed", Data |-> <<>>, Parts |-> ps] :
            ps \in PartLists(LeafParts \cup NestedParts, MaxParts)}

\* The first loop of extractBodyAsText: the first text/plain part that decodes.
RECURSIVE FirstPlain(_, _)
FirstPlain(parts, k) ==
    IF k > Len(parts) THEN [found |-> FALSE, str |-> <<>>]
    ELSE IF parts[k].MimeType = "text/plain" /\ parts[k].Data # <<>>
            /\ ~DecodeString(parts[k].Data).err
    THEN [found |-> TRUE, str |-> DecodeString(parts[k].Data).str]
    ELSE FirstPlain(parts, k + 1)

\* The second loop of extractBodyAsText: the first part with data that decodes.
RECURSIVE FirstAvailable(_, _)
FirstAvailable(parts, k) ==
    IF k > Len(parts) THEN <<>>
    ELSE IF parts[k].Data # <<>> /\ ~DecodeString(parts[k].Data).err
    THEN DecodeString(parts[k].Data).str
    ELSE FirstAvailable(parts, k + 1)

extractBodyAsText(payload) ==
    IF payload.Data # <<>>
    THEN (IF DecodeString(payload.Data).err THEN <<>> ELSE DecodeString(payload.Data).str)
    ELSE IF FirstPlain(payload.Parts, 1).found THEN FirstPlain(payload.Parts, 1).str
    ELSE FirstAvailable(payload.Parts, 1)

\* Mutant of extractMultipartBody: the plain-text part is preferred.
RECURSIVE extractMultipartBodyTextFirst(_)
extractMultipartBodyTextFirst(parts) ==
    LET RECURSIVE Loop(_, _, _)
        Loop(k, htmlBody, textBody) ==
            IF k > Len(parts)
            THEN IF textBody # <<>> THEN textToHtml(textBody)
                 ELSE IF htmlBody # <<>> THEN htmlBody
                 ELSE extractBodyAsText([MimeType |-> "", Data |-> <<>>, Parts |-> parts])
            ELSE LET part == parts[k]
                     decoded == DecodeString(part.Data)
                 IN  IF part.MimeType = "text/html" /\ part.Data # <<>>
                     THEN Loop(k + 1, IF decoded.err THEN htmlBody ELSE decoded.str, textBody)
                     ELSE IF part.MimeType = "text/plain" /\ part.Data # <<>>
                     THEN Loop(k + 1, htmlBody, IF decoded.err THEN textBody ELSE decoded.str)
                     ELSE IF Len(part.Parts) > 0
                     THEN LET nestedBody == extractMultipartBodyTextFirst(part.Parts)
                          IN  IF nestedBody # <<>> /\ htmlBody = <<>> THEN nestedBody
                              ELSE Loop(k + 1, htmlBody, textBody)
                     ELSE Loop(k + 1, htmlBody, textBody)
    IN  Loop(1, <<>>, <<>>)

\* extractMultipartBody: the loop keeps the last HTML part and the last plain
\* part that decode; a nested multipart met before any HTML was found returns
\* its own body at once when it has one.
RECURSIVE extractMultipartBody(_)
extractMultipartBody(parts) ==
    LET RECURSIVE Loop(_, _, _)
        Loop(k, htmlBody, textBody) ==
            IF k > Len(parts)
            THEN IF htmlBody # <<>> THEN htmlBody
                 ELSE IF textBody # <<>> THEN textToHtml(textBody)
                 ELSE extractBodyAsText([MimeType |-> "", Data |-> <<>>, Parts |-> parts])
            ELSE LET part == parts[k]
                     decoded == DecodeString(part.Data)
                 IN  IF part.MimeType = "text/html" /\ part.Data # <<>>
                     THEN Loop(k + 1, IF decoded.err THEN htmlBody ELSE decoded.str, textBody)
                     ELSE IF part.MimeType = "text/plain" /\ part.Data # <<>>
                     THEN Loop(k + 1, htmlBody, IF decoded.err THEN textBody ELSE decoded.str)
                     ELSE IF Len(part.Parts) > 0
                     THEN LET nestedBody == extractMultipartBody(part.Parts)
                          IN  IF nestedBody # <<>> /\ htmlBody = <<>> THEN nestedBody
                              ELSE Loop(k + 1, htmlBody, textBody)
                     ELSE Loop(k + 1, htmlBody, textBody)
    IN  Loop(1, <<>>, <<>>)

extractBody(payload) ==
    IF Len(payload.Parts) > 0 THEN extractMultipartBody(payload.Parts)
    ELSE IF payload.MimeType = "text/html" /\ payload.Data # <<>>
    THEN (IF DecodeString(payload.Data).err
          THEN extractBodyAsText(payload)
          ELSE DecodeString(payload.Data).str)
    ELSE extractBodyAsText(payload)

\* ListUnreadEmails decodes the body of one fetched message.
ExtractBody ==
    /\ ~mime.done
    /\ mime' = [mime EXCEPT !.body = extractBody(mime.payload), !.done = TRUE]
    /\ UNCHANGED <<nonSSEVarsButMime, sseVars>>

MimeNext == ExtractBody

MimeInit ==
    /\ repo = "memory"
    /\ emails = EmptyStore
    /\ CoreIdle
    /\ unsub = NoUnsub
    /\ text = NoText
    /\ job = NoJob
    /\ ckpt = NoCkpt
    /\ req = NoReq
    /\ ticker = NoTicker
    /\ mime \in {[payload |-> p, body |-> <<>>, done |-> FALSE] : p \in Payloads}

SpecMime == MimeInit /\ [][MimeNext]_vars

\* The parts of the message at the top level.
TopParts == mime.payload.Parts

Decodable(part) == part.Data # <<>> /\ ~DecodeString(part.Data).err

HtmlParts == {k \in DOMAIN TopParts : TopParts[k].MimeType = "text/html" /\ Decodable(TopParts[k])}
PlainParts == {k \in DOMAIN TopParts : TopParts[k].MimeType = "text/plain"}

\* The message is a multipart of single parts, one of them an HTML part
\* that decodes and one a plain-text part.
HtmlAndPlain ==
    /\ HtmlParts # {}
    /\ PlainParts # {}
    /\ \A k \in DOMAIN TopParts : TopParts[k].Parts = <<>>

LastHtml == CHOOSE k \in HtmlParts : \A j \in HtmlParts : j <= k

-----------------------------------------------------------------------------
\* The periodic sync job (EmailSyncJob.runSync), one run per tick.
\*
\* The run walks the users in the order FindAll returned them.  The sync
\* engine's call is one step that returns an error or the messages it newly
\* persisted; each delivery is one step on the sinks of the owner.

\* What userRepo.FindAll can return.
UserLists == {<<>>, <<"u1">>, <<"u2">>, <<"u1", "u2">>, <<"u2", "u1">>}

NewEmailEvent(g) == [type |-> "new_email", data |-> g, count |-> 0]
SummaryEvent(n) == [type |-> "email_summary", data |-> "", count |-> n]

PositionIn(page, g) == CHOOSE k \in DOMAIN page : page[k] = g

\* The messages a sync can newly persist for an owner: provider ids of the
\* owner's page that are not stored for the owner yet, in the page's order.
NewLists(u) ==
    {q \in Pages :
        /\ \A i \in DOMAIN q : ~ExistsByGmailID(emails, u, q[i])
        /\ \A i \in DOMAIN q : q[i] \in SeqRange(mailbox[u])
        /\ \A i, j \in DOMAIN q : i < j => PositionIn(mailbox[u], q[i]) < PositionIn(mailbox[u], q[j])}

\* The store after the sync created the messages of new, with fresh local ids.
RECURSIVE Persist(_, _, _, _)
Persist(st, u, new, first) ==
    IF new = <<>> THEN st
    ELSE Persist(RepoCreate(repo, st, Email(first, u, Head(new), "c1", "s", FALSE)).st,
                 u, Tail(new), first + 1)

\* BroadcastEmailToUser / BroadcastToUser as one step: every sink of the
\* owner gets the event if it has room; a full sink gets it only if its
\* handler takes an event within the timeout (sinks in drained), else not.
DeliverAll(u, event, drained) ==
    [c \in Conns |->
        IF u \in DOMAIN clients /\ c \in clients[u]
        THEN IF HasRoom(c) THEN [chans[c] EXCEPT !.sent = Append(@, event)]
             ELSE IF c \in drained
             THEN [chans[c] EXCEPT !.sent = Append(@, event), !.read = @ + 1]
             ELSE chans[c]
        ELSE chans[c]]

FullSinks(u) == IF u \in DOMAIN clients THEN {c \in clients[u] : ~HasRoom(c)} ELSE {}

schedFrame == <<repo, mailbox, sync, cleanDone, clsVars, scan, bulk, unsub, mime, text, ckpt, req, ticker,
                clients, clientsMux, conns, bc, sends>>

\* A tick: go j.runSync(); FindAll returns the users.
JobStart(users) ==
    /\ job.pc = "idle"
    /\ job.tick < MaxTicks
    /\ job' = [NoJob EXCEPT !.pc = "loop", !.tick = job.tick + 1, !.todo = users]
    /\ UNCHANGED <<schedFrame, emails, nextID, chans>>

\* A tick whose FindAll fails: the run returns.
JobStartFails ==
    /\ job.pc = "idle"
    /\ job.tick < MaxTicks
    /\ job' = [NoJob EXCEPT !.tick = job.tick + 1]
    /\ UNCHANGED <<schedFrame, emails, nextID, chans>>

\* The loop reaches the next user and asks the registry for its sinks.
JobExamine ==
    /\ job.pc = "loop"
    /\ job.todo # <<>>
    /\ job' = [job EXCEPT !.pc = "checked", !.cur = Head(job.todo),
                          !.had = HasUserConnection(Head(job.todo)),
                          !.seen = @ \cup {Head(job.todo)},
                          !.withSink = IF HasUserConnection(Head(job.todo))
                                       THEN @ \cup {Head(job.todo)} ELSE @,
                          !.new = <<>>, !.k = 0, !.log = <<>>, !.outcome = "none"]
    /\ UNCHANGED <<schedFrame, emails, nextID, chans>>

\* Mutant of JobDecide: the answer of the registry is not looked at.
JobDecideAlways ==
    /\ job.pc = "checked"
    /\ job' = [job EXCEPT !.pc = "sync", !.invoked = @ \cup {job.cur}]
    /\ UNCHANGED <<schedFrame, emails, nextID, chans>>

\* if !hasConnection { continue }; otherwise SyncEmailsWithNewEmails is called.
JobDecide ==
    /\ job.pc = "checked"
    /\ job' = IF ~job.had
              THEN [job EXCEPT !.pc = "loop", !.todo = Tail(@), !.outcome = "skipped"]
              ELSE [job EXCEPT !.pc = "sync", !.invoked = @ \cup {job.cur}]
    /\ UNCHANGED <<schedFrame, emails, nextID, chans>>

\* The sync call returns an error: the run moves to the next user.
JobSyncFails ==
    /\ job.pc = "sync"
    /\ job' = [job EXCEPT !.pc = "loop", !.todo = Tail(@), !.outcome = "err"]
    /\ UNCHANGED <<schedFrame, emails, nextID, chans>>

\* The sync call returns the messages it newly persisted.
JobSyncReturns ==
    /\ job.pc = "sync"
    /\ \E new \in NewLists(job.cur) :
        /\ nextID + Len(new) - 1 <= MaxID
        /\ emails' = Persist(emails, job.cur, new, nextID)
        /\ nextID' = nextID + Len(new)
        /\ job' = IF new = <<>>
                  THEN [job EXCEPT !.pc = "loop", !.todo = Tail(@), !.outcome = "ok"]
                  ELSE [job EXCEPT !.pc = "send", !.new = new, !.k = 0]
    /\ UNCHANGED <<schedFrame, chans>>

\* One BroadcastEmailToUser call of the loop over newProcessedEmails.
JobSend ==
    /\ job.pc = "send"
    /\ job.k < Len(job.new)
    /\ \E drained \in SUBSET FullSinks(job.cur) :
        LET event == NewEmailEvent(job.new[job.k + 1]) IN
        /\ chans' = DeliverAll(job.cur, event, drained)
        /\ job' = [job EXCEPT !.k = @ + 1, !.log = Append(@, event)]
    /\ UNCHANGED <<schedFrame, emails, nextID>>

\* Mutant of JobSummary: the summary goes out once one message was sent.
JobSummaryEarly ==
    /\ job.pc = "send"
    /\ job.k >= 1
    /\ \E drained \in SUBSET FullSinks(job.cur) :
        LET event == SummaryEvent(Len(job.new)) IN
        /\ chans' = DeliverAll(job.cur, event, drained)
        /\ job' = [job EXCEPT !.pc = "loop", !.todo = Tail(@), !.outcome = "ok",
                              !.log = Append(@, event)]
    /\ UNCHANGED <<schedFrame, emails, nextID>>

\* BroadcastToUser(user.ID, "email_summary", summary) after the loop.
JobSummary ==
    /\ job.pc = "send"
    /\ job.k = Len(job.new)
    /\ \E drained \in SUBSET FullSinks(job.cur) :
        LET event == SummaryEvent(Len(job.new)) IN
        /\ chans' = DeliverAll(job.cur, event, drained)
        /\ job' = [job EXCEPT !.pc = "loop", !.todo = Tail(@), !.outcome = "ok",
                              !.log = Append(@, event)]
    /\ UNCHANGED <<schedFrame, emails, nextID>>

\* The loop is over: the run returns.
JobEnd ==
    /\ job.pc = "loop"
    /\ job.todo = <<>>
    /\ job' = [job EXCEPT !.pc = "idle"]
    /\ UNCHANGED <<schedFrame, emails, nextID, chans>>

SchedNext ==
    \/ \E users \in UserLists : JobStart(users)
    \/ JobStartFails
    \/ JobExamine
    \/ JobDecide
    \/ JobSyncFails
    \/ JobSyncReturns
    \/ JobSend
    \/ JobSummary
    \/ JobEnd
    \/ \E c \in Conns, u \in Users : AddClient(c, u)
    \/ \E c \in Conns : HandlerRecv(c)
    \/ \E c \in Conns : RemoveClient(c)

SchedInit ==
    /\ repo = "memory"
    /\ emails = EmptyStore
    /\ mailbox = [u \in Users |-> <<"g1", "g2">>]
    /\ nextID = 1
    /\ sync = [p \in Procs |-> IdleSync]
    /\ cleanDone = [u \in Users |-> FALSE]
    /\ RestIdle
    /\ clsCategories = OneCategory

SpecSched == SchedInit /\ [][SchedNext]_vars

\* C18: in a run, the sync engine is invoked only for an owner that had a
\* registered sink when the run examined it; an owner examined without a
\* sink is skipped with no sync call and no delivery.
C18_NoSinkNoSync ==
    /\ job.invoked \subseteq job.withSink
    /\ job.pc \in {"sync", "send"} => job.had
    /\ (job.cur # "" /\ ~job.had) =>
        /\ job.cur \notin job.invoked
        /\ job.log = <<>>
        /\ job.new = <<>>
    /\ job.outcome = "skipped" <=> (job.pc \in {"loop", "idle"} /\ job.cur # "" /\ ~job.had)

C18_Witness ==
    /\ job.outcome = "skipped"
    /\ job.cur = "u1"
    /\ job.invoked = {}
    /\ job.todo = <<"u2">>
    /\ HasUserConnection("u2")
    /\ emails = EmptyStore

\* The calls a run makes for an owner whose sync newly persisted new.
ExpectedLog(new) ==
    IF new = <<>> THEN <<>>
    ELSE [i \in 1..(Len(new) + 1) |->
            IF i <= Len(new) THEN NewEmailEvent(new[i]) ELSE SummaryEvent(Len(new))]

\* C19: for an owner whose sync newly persisted n > 0 messages the run sends
\* one new_email event per message and then one email_summary event with
\* count n, after all the new_email events; for n = 0, and for a skipped or
\* failed owner, it sends nothing.
C19_Notification ==
    /\ job.outcome = "ok" => job.log = ExpectedLog(job.new)
    /\ job.outcome \in {"skipped", "err"} => job.log = <<>>
    /\ job.pc = "send" =>
        /\ job.log = SubSeq(ExpectedLog(job.new), 1, job.k)
        /\ job.k <= Len(job.new)
    /\ \A c \in Conns : \A i \in DOMAIN chans[c].sent :
        chans[c].sent[i].type = "email_summary" => chans[c].sent[i].count > 0

C19_Witness ==
    /\ job.outcome = "ok"
    /\ Len(job.new) = 2
    /\ \E c \in Conns :
        /\ conns[c].user = job.cur
        /\ Len(chans[c].sent) = 3
        /\ chans[c].sent = ExpectedLog(job.new)

\* C20: the work of every owner of a tick is dispatched independently: while
\* the sync of one owner is in flight, no other owner of the run is waiting
\* for it to return.
C20_PerOwnerIndependence ==
    job.pc = "sync" => \A v \in SeqRange(job.todo) : v \in job.seen

-----------------------------------------------------------------------------
\* The checkpoint of the periodic sync job: getMostRecentEmailForUser and the
\* cursor RunSync derives from it.
\*
\* rows is what the store holds, in the order the repository lists it (a map
\* iteration or an unordered SELECT, so any order); every row carries the
\* owner, the provider id and the received timestamp.

MaxRows == 3
MaxTime == 2

Times == 1..MaxTime

StoredRow == [UserID : Users, GmailID : GmailIDs, ReceivedAt : Times]

StoredRows == UNION {[1..n -> StoredRow] : n \in 0..MaxRows}

\* emailRepo.FindByUserID: the rows of the owner, in the listed order.
RECURSIVE RowsOfUser(_, _)
RowsOfUser(rows, userID) ==
    IF rows = <<>> THEN <<>>
    ELSE IF Head(rows).UserID = userID
    THEN <<Head(rows)>> \o RowsOfUser(Tail(rows), userID)
    ELSE RowsOfUser(Tail(rows), userID)

\* The loop over emails: a later row replaces mostRecent when its timestamp
\* is strictly after.
RECURSIVE MostRecentLoop(_, _)
MostRecentLoop(found, mostRecent) ==
    IF found = <<>> THEN mostRecent
    ELSE MostRecentLoop(Tail(found),
                        IF Head(found).ReceivedAt > mostRecent.ReceivedAt
                        THEN Head(found) ELSE mostRecent)

NoRow == [UserID |-> "", GmailID |-> "", ReceivedAt |-> 0]

\* Mutant of getMostRecentEmailForUser: the last listed row is taken.
getMostRecentEmailForUserLast(rows, userID, fails) ==
    LET found == RowsOfUser(rows, userID) IN
    IF fails THEN [err |-> TRUE, email |-> NoRow]
    ELSE IF found = <<>> THEN [err |-> FALSE, email |-> NoRow]
    ELSE [err |-> FALSE, email |-> found[Len(found)]]

\* getMostRecentEmailForUser: (nil, err) when the lookup fails, (nil, nil)
\* when the owner has no row, else the most recent row.
getMostRecentEmailForUser(rows, userID, fails) ==
    LET found == RowsOfUser(rows, userID) IN
    IF fails THEN [err |-> TRUE, email |-> NoRow]
    ELSE IF found = <<>> THEN [err |-> FALSE, email |-> NoRow]
    ELSE [err |-> FALSE, email |-> MostRecentLoop(found, found[1])]

\* RunSync: afterEmailID is lastEmail.GmailID if err == nil && lastEmail != nil.
AfterEmailID(rows, userID, fails) ==
    LET last == getMostRecentEmailForUser(rows, userID, fails) IN
    IF ~last.err /\ last.email # NoRow THEN last.email.GmailID ELSE ""

CkptLookup ==
    /\ ckpt.pc = "start"
    /\ ckpt' = [ckpt EXCEPT !.pc = "done",
                            !.after = AfterEmailID(ckpt.rows, ckpt.user, ckpt.fails)]
    /\ UNCHANGED <<storeVars, syncVars, clsVars, scan, bulk, sseVars, unsub, mime, text, job, req, ticker>>

CkptNext == CkptLookup

CkptInit ==
    /\ repo = "memory"
    /\ emails = EmptyStore
    /\ SyncIdle
    /\ scan = NoScan
    /\ bulk = NoBulk
    /\ SSEIdle
    /\ clsCategories = <<>>
    /\ clsResponse = <<>>
    /\ clsResult = NoResult
    /\ unsub = NoUnsub
    /\ mime = NoMime
    /\ text = NoText
    /\ job = NoJob
    /\ req = NoReq
    /\ ticker = NoTicker
    /\ \E u \in Users, rows \in StoredRows, fails \in BOOLEAN :
        ckpt = [pc |-> "start", user |-> u, rows |-> rows, fails |-> fails, after |-> ""]

SpecCkpt == CkptInit /\ [][CkptNext]_vars

OwnRows == {i \in DOMAIN ckpt.rows : ckpt.rows[i].UserID = ckpt.user}

\* C21: the cursor handed to the sync engine for an owner is the provider id
\* of a stored row of that owner whose received timestamp is maximal among
\* the owner's rows, and it is empty exactly when the owner has no stored row
\* or the lookup failed.
C21_Checkpoint ==
    ckpt.pc = "done" =>
        /\ ckpt.after = "" <=> (OwnRows = {} \/ ckpt.fails)
        /\ ckpt.after # "" =>
            \E i \in OwnRows :
                /\ ckpt.rows[i].GmailID = ckpt.after
                /\ \A j \in OwnRows : ckpt.rows[j].ReceivedAt <= ckpt.rows[i].ReceivedAt

C21_Witness ==
    /\ ckpt.pc = "done"
    /\ ~ckpt.fails
    /\ ckpt.user = "u1"
    /\ Len(ckpt.rows) = 3
    /\ ckpt.rows[1] = [UserID |-> "u1", GmailID |-> "g1", ReceivedAt |-> 1]
    /\ ckpt.rows[2] = [UserID |-> "u1", GmailID |-> "g2", ReceivedAt |-> 2]
    /\ ckpt.rows[3] = [UserID |-> "u2", GmailID |-> "g1", ReceivedAt |-> 2]
    /\ ckpt.after = "g2"

-----------------------------------------------------------------------------
\* The sync engine and the shared category set, the archive mirror and the
\* number of goroutines of one invocation.

\* The invocation of p has passed the owner lookup.
Invoked(p) == sync[p].pc # "idle" /\ sync[p].user \in Users

\* The invocation of p has called the mailbox: the list succeeded (goroutines
\* or the final loop), or it failed and the call returned its error.
MailboxFetched(p) ==
    \/ sync[p].pc \in {"run", "tail"}
    \/ sync[p].pc = "done" /\ (sync[p].msgs # <<>> \/ sync[p].backendFailed \/ sync[p].ret = "ok")

\* C22: a sync invoked while the shared category set is empty fails with an
\* error before any mailbox fetch is made and persists nothing, whatever the
\* mailbox holds.
C22_EmptyCategorySet ==
    clsCategories = <<>> =>
        /\ emails = EmptyStore
        /\ \A p \in Procs : Invoked(p) =>
            /\ sync[p].pc = "done"
            /\ sync[p].ret = "err"
            /\ ~MailboxFetched(p)

\* The goroutine of message k went past Create and its archive call failed.
ArchiveFailed(p, k) == sync[p].msgs[k].pc = "stored" /\ ~sync[p].msgs[k].e.Archived

FailedGoroutines(p) == {k \in DOMAIN sync[p].msgs : sync[p].msgs[k].pc = "failed"}

\* C23: a message whose archive call failed stays stored for its owner with
\* archived = false; only a goroutine that failed to classify or to create
\* counts as an error, so the other messages go on, and a call in which every
\* goroutine got past Create does not return an error at the error check.
C23_BestEffortMirroring ==
    LET s == sync[1] IN
    /\ \A k \in DOMAIN s.msgs : ArchiveFailed(1, k) =>
        \E i \in DOMAIN emails :
            /\ emails[i].UserID = s.user
            /\ emails[i].GmailID = s.msgs[k].e.GmailID
            /\ ~emails[i].Archived
    /\ s.errs = Cardinality(FailedGoroutines(1))
    /\ (s.pc = "done" /\ s.ret = "err" /\ s.ti = 0 /\ s.msgs # <<>>) => FailedGoroutines(1) # {}

C23_Witness ==
    LET s == sync[1] IN
    /\ s.pc = "done"
    /\ s.ret = "ok"
    /\ Len(s.msgs) = 2
    /\ ArchiveFailed(1, 1)
    /\ s.msgs[2].pc = "stored"
    /\ s.msgs[2].e.Archived
    /\ \E i, j \in DOMAIN emails :
        /\ emails[i].GmailID = s.msgs[1].e.GmailID /\ ~emails[i].Archived
        /\ emails[j].GmailID = s.msgs[2].e.GmailID /\ emails[j].Archived

\* The goroutines of the invocation of p that have not ended.
Running(p) ==
    IF sync[p].pc = "run"
    THEN Cardinality({k \in DOMAIN sync[p].msgs : ~GoroutineEnded(sync[p].msgs[k])})
    ELSE 0

\* A ceiling that does not grow with the fetched page is below the size of
\* some page; the largest page of the model stands for it.
FanOutCeiling == MaxPage - 1

\* C24: within one sync invocation the number of per-message tasks running
\* at the same time never exceeds a ceiling that is fixed, whatever the
\* number of fetched messages.
C24_BoundedFanOut == \A p \in Procs : Running(p) <= FanOutCeiling

-----------------------------------------------------------------------------
\* The two classification entry points of the service, called with any
\* category set, the empty one included.

\* emailService.ClassifyEmailByContent once the backend has answered: the
\* name aiClient.ClassifyEmail returns, and a nil error.
ClassifyEmailByContent(raw, categories) ==
    [err |-> FALSE, name |-> ClassifyEmail(raw, categories), id |-> 0]

ClsClassifyByContent ==
    /\ clsResult.state = "none"
    /\ LET r == ClassifyEmailByContent(clsResponse, clsCategories) IN
       clsResult' = [state |-> IF r.err THEN "err" ELSE "ok", name |-> r.name, id |-> r.id]
    /\ UNCHANGED <<clsCategories, clsResponse>>

ClassifyCallsInit ==
    /\ repo = "memory"
    /\ emails = EmptyStore
    /\ SyncIdle
    /\ scan = NoScan
    /\ bulk = NoBulk
    /\ SSEIdle
    /\ ExtIdle
    /\ clsCategories \in CategoryLists \cup {<<>>}
    /\ clsResponse \in Strings
    /\ clsResult = NoResult

ClassifyCallsNext ==
    \/ /\ ClsClassify
       /\ UNCHANGED <<storeVars, syncVars, scan, bulk, sseVars, extVars>>
    \/ /\ ClsClassifyByContent
       /\ UNCHANGED <<storeVars, syncVars, scan, bulk, sseVars, extVars>>
    \/ /\ ClsBackendFails
       /\ UNCHANGED <<storeVars, syncVars, scan, bulk, sseVars, extVars>>

SpecClassifyCalls == ClassifyCallsInit /\ [][ClassifyCallsNext]_vars

\* C25: with an empty category set ClassifyAndSummarizeEmail and
\* ClassifyEmailByContent return an error, whatever the backend answered.
C25_EmptySetIsAnError ==
    (clsCategories = <<>> /\ clsResult.state # "none") => clsResult.state = "err"

-----------------------------------------------------------------------------
\* Bulk actions: the action tag, the delete action and the reported result.

KnownActions == {"archive", "read", "delete", "unsubscribe"}

\* C26: PerformBulkAction with an action tag other than archive, read,
\* delete or unsubscribe returns an error for every batch of ids, the empty
\* batch and batches of absent or foreign ids included, and changes nothing
\* remotely or in the store.
C26_UnknownAction ==
    (bulk.op = "PerformBulkAction" /\ bulk.action \notin KnownActions) =>
        /\ bulk.ret = "err"
        /\ bulk.calls = {}
        /\ emails = bulk.before

\* C27: the bulk action delete removes each owned message from the remote
\* mailbox and, when the remote removal succeeded, from the store: after the
\* action the message is not found in the store.
C27_BulkDelete ==
    (bulk.op = "PerformBulkAction" /\ bulk.action = "delete" /\ bulk.caller \in Users) =>
        /\ \A c \in bulk.calls : c.kind = "DeleteEmails"
        /\ \A i \in OwnIDs \ bulk.remoteFailed : i \notin DOMAIN emails

\* Every owned message of the batch failed, and there is one.
TotalFailure == OwnIDs # {} /\ OwnIDs \subseteq bulk.remoteFailed

\* C28: UnsubscribeEmails and PerformBulkAction do not return, for a batch in
\* which every owned item failed, the result they return when an item
\* succeeded (no error).
C28_TotalFailureDistinguishable ==
    (/\ bulk.op \in {"PerformBulkAction", "UnsubscribeEmails"}
     /\ bulk.caller \in Users
     /\ bulk.op = "PerformBulkAction" => bulk.action \in KnownActions
     /\ TotalFailure)
        => bulk.ret # "ok"

-----------------------------------------------------------------------------
\* The inference fallback of the unsubscribe automation and cancellation.

\* The requests made for the candidate after the inference call.
AfterAI == SubSeq(unsub.calls, 3, Len(unsub.calls))

Answered == unsub.answer.asked /\ ~unsub.answer.err

\* C29 as stated: an answer starting with CLICK: or FORM: is dispatched to
\* the click or form action, an answer exactly equal to CONFIRMED is a
\* success with no further request, and any other answer fails the candidate
\* with no further request.
C29_AsStated ==
    Answered =>
        LET action == unsub.answer.text IN
        IF HasPrefix(action, "CLICK:") \/ HasPrefix(action, "FORM:")
        THEN AfterAI # <<>> /\ Head(AfterAI) = "GET"
        ELSE IF action = <<"CONFIRMED">>
        THEN unsub.ok /\ AfterAI = <<>>
        ELSE ~unsub.ok /\ AfterAI = <<>>

\* C29 as amended: the answer is read without its surrounding whitespace.
\* Starting with CLICK: it goes to the click action (the page is fetched
\* again; an anchor with href is followed, an element in a form submits the
\* form); starting with FORM: it goes to the form action (the page is
\* fetched again and the form submitted, never a link followed); equal to
\* CONFIRMED it is a success with no further request; anything else fails
\* the candidate with no further request.
C29_ClosedDirectives ==
    Answered =>
        LET action == TrimSpace(unsub.answer.text)
            target == unsub.answer.target
        IN
        /\ unsub.calls[1] = "GET" /\ unsub.calls[2] = "AI"
        /\ IF HasPrefix(action, "CLICK:")
           THEN AfterAI = IF target \in {"refetchFailed", "none", "bare"} THEN <<"GET">>
                          ELSE IF target = "href" THEN <<"GET", "link">>
                          ELSE <<"GET", "submit">>
           ELSE IF HasPrefix(action, "FORM:")
           THEN AfterAI = IF target \in {"refetchFailed", "none"} THEN <<"GET">>
                          ELSE <<"GET", "submit">>
           ELSE IF action = <<"CONFIRMED">>
           THEN unsub.ok /\ AfterAI = <<>>
           ELSE ~unsub.ok /\ AfterAI = <<>>

\* An answer that is CONFIRMED behind a space: the candidate succeeds with
\* the page fetch and the inference call only.
C29_Witness ==
    /\ unsub.pc = "done"
    /\ unsub.ret = "ok"
    /\ unsub.answer.text = <<" ", "CONFIRMED">>
    /\ unsub.calls = <<"GET", "AI">>

\* C30: once the caller's context is cancelled, the unsubscribe invocation
\* starts no further HTTP request that ignores the cancellation.
C30_Cancellation == unsub.cancelled => unsub.afterCancel = <<>>

-----------------------------------------------------------------------------
\* The order in which processEmailUnsubscribe attempts its candidates.

\* C31: the candidates are attempted one at a time in the order
\* findUnsubscribeLinks returned them: the k-th attempt is candidate k, every
\* attempt but the latest failed, so that none follows a success, and the
\* message fails only when it has no candidate or every candidate was
\* attempted and failed.
C31_DiscoveryOrder ==
    /\ \A k \in DOMAIN unsub.tried : unsub.tried[k].c = k
    /\ \A k \in DOMAIN unsub.tried : k < Len(unsub.tried) => ~unsub.tried[k].ok
    /\ Len(unsub.tried) <= unsub.n
    /\ unsub.pc = "loop" =>
        /\ unsub.i = Len(unsub.tried) + 1
        /\ \A k \in DOMAIN unsub.tried : ~unsub.tried[k].ok
    /\ (unsub.pc = "done" /\ unsub.ret = "err") =>
        /\ Len(unsub.tried) = unsub.n
        /\ \A k \in DOMAIN unsub.tried : ~unsub.tried[k].ok
    /\ (unsub.pc = "done" /\ unsub.ret = "ok") =>
        /\ unsub.tried # <<>>
        /\ unsub.tried[Len(unsub.tried)].ok

\* The first of two candidates succeeds: the second is never attempted.
C31_Witness ==
    /\ unsub.pc = "done"
    /\ unsub.n = 2
    /\ unsub.ret = "ok"
    /\ unsub.tried = <<[c |-> 1, ok |-> TRUE]>>
    /\ unsub.log = <<"GET", "submit">>

-----------------------------------------------------------------------------
\* Body decoding of nested multipart trees.

\* The leaves of a multipart tree, depth first in the order of the parts.
RECURSIVE Flatten(_)
Flatten(parts) ==
    IF parts = <<>> THEN <<>>
    ELSE (IF Len(Head(parts).Parts) > 0 THEN Flatten(Head(parts).Parts) ELSE <<Head(parts)>>)
         \o Flatten(Tail(parts))

\* The text/html leaves of the payload that decode, at any depth.
DecodableHtml ==
    SelectSeq(Flatten(mime.payload.Parts),
              LAMBDA part : part.MimeType = "text/html" /\ Decodable(part))

\* C32: when exactly one part of a multipart tree, at any depth, is a
\* text/html part that decodes, the canonical body is the content of that
\* part and never HTML derived from plain text, also when a nested part
\* holding only plain text comes before the sibling that holds the HTML.
C32_NestedPrecedence ==
    (mime.done /\ Len(DecodableHtml) = 1)
        => mime.body = DecodeString(DecodableHtml[1].Data).str

-----------------------------------------------------------------------------
\* The sync endpoint (EmailHandler.SyncEmails): the max_results query value.
\*
\* A query value is a sequence of characters; an absent parameter is the
\* empty sequence, as c.QueryParam returns "" for it.

MaxParamLen == 3

ParamChars == {"0", "1", "2", "4", "-", "x"}
Params == UNION {[1..n -> ParamChars] : n \in 0..MaxParamLen}

\* The value of a digit character.
DigitValue(c) == IF c = "0" THEN 0 ELSE IF c = "1" THEN 1 ELSE IF c = "2" THEN 2 ELSE 4

\* strconv.ParseUint without the range check: every character has to be a
\* digit below the base.
RECURSIVE ParseUint(_, _, _)
ParseUint(str, base, acc) ==
    IF str = <<>> THEN [err |-> FALSE, val |-> acc]
    ELSE IF Head(str) \in {"-", "x"} \/ DigitValue(Head(str)) >= base
    THEN [err |-> TRUE, val |-> 0]
    ELSE ParseUint(Tail(str), base, acc * base + DigitValue(Head(str)))

\* strconv.ParseInt(s, base, 64): an optional sign, then ParseUint.
ParseInt(str, base) ==
    IF str = <<>> THEN [err |-> TRUE, val |-> 0]
    ELSE IF Head(str) = "-"
    THEN IF Tail(str) = <<>> THEN [err |-> TRUE, val |-> 0]
         ELSE LET un == ParseUint(Tail(str), base, 0)
              IN  [err |-> un.err, val |-> 0 - un.val]
    ELSE ParseUint(str, base, 0)

\* The base the handler hands to strconv.ParseInt.
ParseBase == 3

\* maxResults := int64(3), replaced by the parsed value when the parameter
\* is there, parses and is positive.
MaxResultsOf(maxResultsStr) ==
    IF maxResultsStr # <<>>
       /\ ~ParseInt(maxResultsStr, ParseBase).err
       /\ ParseInt(maxResultsStr, ParseBase).val > 0
    THEN ParseInt(maxResultsStr, ParseBase).val
    ELSE 3

\* EmailHandler.SyncEmails: 401 without a user; otherwise the sync engine is
\* called with the limit, and its error decides between 500 and 200.
HandleSyncEmails ==
    /\ req.pc = "idle"
    /\ \E authorized \in BOOLEAN, syncErr \in BOOLEAN :
        req' = IF ~authorized
               THEN [req EXCEPT !.pc = "rejected", !.status = 401]
               ELSE [req EXCEPT !.pc = "called", !.maxResults = MaxResultsOf(req.param),
                                !.status = IF syncErr THEN 500 ELSE 200]
    /\ UNCHANGED <<storeVars, syncVars, clsVars, scan, bulk, sseVars, unsub, mime, text,
                   job, ckpt, ticker>>

ParamNext == HandleSyncEmails

ParamInit ==
    /\ repo = "memory"
    /\ emails = EmptyStore
    /\ CoreIdle
    /\ unsub = NoUnsub
    /\ mime = NoMime
    /\ text = NoText
    /\ job = NoJob
    /\ ckpt = NoCkpt
    /\ ticker = NoTicker
    /\ req \in {[NoReq EXCEPT !.param = p] : p \in Params}

SpecParam == ParamInit /\ [][ParamNext]_vars

\* The value a query string denotes when it is a positive decimal integer.
PositiveDecimal(str) == ~ParseInt(str, 10).err /\ ParseInt(str, 10).val > 0

\* C33: the sync engine is called with the value of max_results when that
\* is a positive decimal integer, and with 3 when the parameter is absent,
\* not a number or not positive.
C33_MaxResults ==
    req.pc = "called" =>
        req.maxResults = IF PositiveDecimal(req.param) THEN ParseInt(req.param, 10).val ELSE 3

-----------------------------------------------------------------------------
\* Closing of the sinks of the registry.

\* A step that sends an event on sink c.
SentOn(c) == chans'[c].sent # chans[c].sent

\* C34: in every interleaving of connections (AddClient, then RemoveClient
\* of the same sink once), deliveries and Close, no sink is closed more than
\* once and no event is sent on a sink that was closed.
C34_SinkSafety ==
    /\ [](\A c \in Conns : chans[c].closes <= 1)
    /\ [][\A c \in Conns : chans[c].closes > 0 => ~SentOn(c)]_vars

-----------------------------------------------------------------------------
\* What the sync engine leaves in the store.

\* C37: after any sequence of sync invocations, successful or failing, every
\* stored message has a category id of the shared category set: no
\* unclassified message is ever persisted.
C37_ClassifiedStore ==
    \A i \in DOMAIN emails : emails[i].CategoryID \in AssignableIDs(clsCategories)

-----------------------------------------------------------------------------
\* The frame of Create across owners.

\* The step creates the message e, which carries a fresh local id.
CreatesFresh(e) == e.ID \notin DOMAIN emails /\ emails' = RepoCreate(repo, emails, e).st

\* C39: creating a message for one owner leaves every message stored for a
\* different owner in the store, unchanged and with its owner, also when
\* the two messages carry the same provider id.
C39_CrossOwnerFrame ==
    [][\A e \in EmailInputs :
        CreatesFresh(e) =>
            \A i \in DOMAIN emails :
                emails[i].UserID # e.UserID => (i \in DOMAIN emails' /\ emails'[i] = emails[i])]_vars

-----------------------------------------------------------------------------
\* EmailSyncJob.Start: the initial run and one more run per tick, each a
\* goroutine of its own (go j.runSync()), over a growing mailbox.
\*
\* The owner u1 keeps one registered sink whose handler drains it; u2 has
\* none.  A provider page lists the newest message first, and a message's
\* ReceivedAt follows the page: the stored message that is first on the page
\* is the most recent one.  A delivery to a full sink waits for the handler,
\* which takes an event within the delivery timeout.

MaxRuns == 2

Runs == 1..MaxRuns

NoRun == [pc |-> "idle", todo |-> <<>>, cur |-> "", after |-> "", new |-> <<>>, k |-> 0]

tickerFrame == <<repo, sync, cleanDone, clsVars, scan, bulk, unsub, mime, text, job, ckpt, req,
                 clients, clientsMux, conns, bc, sends>>

\* Start: go j.runSync() before the ticker is created.
TickerStart ==
    /\ ticker.pc = "new"
    /\ ticker' = [ticker EXCEPT !.pc = "running", !.run[1].pc = "start"]
    /\ UNCHANGED <<tickerFrame, emails, mailbox, nextID, chans>>

\* case <-ticker.C: go j.runSync(), whatever the earlier runs are doing.
Tick(r) ==
    /\ ticker.pc = "running"
    /\ ticker.run[r].pc = "idle"
    /\ \A q \in Runs : q < r => ticker.run[q].pc # "idle"
    /\ ticker' = [ticker EXCEPT !.run[r].pc = "start"]
    /\ UNCHANGED <<tickerFrame, emails, mailbox, nextID, chans>>

\* userRepo.FindAll: the users, or an error that ends the run.
RunFindAll(r) ==
    /\ ticker.run[r].pc = "start"
    /\ \E fails \in {FALSE, ticker.faulty} :
        ticker' = IF fails
                  THEN [ticker EXCEPT !.run[r] = NoRun]
                  ELSE [ticker EXCEPT !.run[r].pc = "loop", !.run[r].todo = <<"u1", "u2">>]
    /\ UNCHANGED <<tickerFrame, emails, mailbox, nextID, chans>>

\* The GmailID of the stored message of the owner that is most recent, ""
\* without a stored message (getMostRecentEmailForUser and afterEmailID).
MostRecentGmailID(u) ==
    IF StoredGmailIDs(emails, u) = {} THEN ""
    ELSE CHOOSE g \in StoredGmailIDs(emails, u) :
            \A h \in StoredGmailIDs(emails, u) :
                PositionIn(mailbox[u], g) <= PositionIn(mailbox[u], h)

\* The loop reaches the next user: an owner without a sink is skipped; for
\* the others the cursor is computed and SyncEmailsWithNewEmails is called.
RunExamine(r) ==
    /\ ticker.run[r].pc = "loop"
    /\ ticker.run[r].todo # <<>>
    /\ LET u == Head(ticker.run[r].todo) IN
       ticker' = IF ~HasUserConnection(u)
                 THEN [ticker EXCEPT !.run[r].todo = Tail(@)]
                 ELSE [ticker EXCEPT !.run[r].pc = "sync", !.run[r].cur = u,
                                     !.run[r].after = MostRecentGmailID(u)]
    /\ UNCHANGED <<tickerFrame, emails, mailbox, nextID, chans>>

\* The messages of the call that are not stored yet, in the page's order:
\* the page is scanned from the cursor and deduplicated against the store.
NewOf(u, after) ==
    SelectSeq(GmailSyncEmails(mailbox[u], after, {}),
              LAMBDA g : ~ExistsByGmailID(emails, u, g))

\* The sync call reports an error for some message: the others stay
\* persisted, and the run moves to the next user (continue).
RunSyncFails(r) ==
    /\ ticker.run[r].pc = "sync"
    /\ ticker.faulty
    /\ LET new == NewOf(ticker.run[r].cur, ticker.run[r].after) IN
       \E kept \in {q \in Pages : q # new /\ q = SelectSeq(new, LAMBDA g : g \in SeqRange(q))} :
        /\ emails' = Persist(emails, ticker.run[r].cur, kept, nextID)
        /\ nextID' = nextID + Len(kept)
        /\ ticker' = [ticker EXCEPT !.run[r].pc = "loop", !.run[r].todo = Tail(@)]
    /\ UNCHANGED <<tickerFrame, mailbox, chans>>

\* The sync call returns the messages it newly persisted.
RunSyncReturns(r) ==
    /\ ticker.run[r].pc = "sync"
    /\ LET new == NewOf(ticker.run[r].cur, ticker.run[r].after) IN
        /\ emails' = Persist(emails, ticker.run[r].cur, new, nextID)
        /\ nextID' = nextID + Len(new)
        /\ ticker' = IF new = <<>>
                     THEN [ticker EXCEPT !.run[r].pc = "loop", !.run[r].todo = Tail(@)]
                     ELSE [ticker EXCEPT !.run[r].pc = "send", !.run[r].new = new,
                                         !.run[r].k = 0]
    /\ UNCHANGED <<tickerFrame, mailbox, chans>>

\* One BroadcastEmailToUser call of the loop over newProcessedEmails.
RunSend(r) ==
    /\ ticker.run[r].pc = "send"
    /\ ticker.run[r].k < Len(ticker.run[r].new)
    /\ FullSinks(ticker.run[r].cur) = {}
    /\ chans' = DeliverAll(ticker.run[r].cur,
                           NewEmailEvent(ticker.run[r].new[ticker.run[r].k + 1]), {})
    /\ ticker' = [ticker EXCEPT !.run[r].k = @ + 1]
    /\ UNCHANGED <<tickerFrame, emails, mailbox, nextID>>

\* BroadcastToUser(user.ID, "email_summary", summary) after the loop.
RunSummary(r) ==
    /\ ticker.run[r].pc = "send"
    /\ ticker.run[r].k = Len(ticker.run[r].new)
    /\ FullSinks(ticker.run[r].cur) = {}
    /\ chans' = DeliverAll(ticker.run[r].cur, SummaryEvent(Len(ticker.run[r].new)), {})
    /\ ticker' = [ticker EXCEPT !.run[r].pc = "loop", !.run[r].todo = Tail(@),
                                !.run[r].new = <<>>, !.run[r].k = 0]
    /\ UNCHANGED <<tickerFrame, emails, mailbox, nextID>>

\* The loop is over: the goroutine ends.
RunEnd(r) ==
    /\ ticker.run[r].pc = "loop"
    /\ ticker.run[r].todo = <<>>
    /\ ticker' = [ticker EXCEPT !.run[r] = NoRun]
    /\ UNCHANGED <<tickerFrame, emails, mailbox, nextID, chans>>

\* The provider receives a message for the owner: it is listed first.
Arrive(u) ==
    /\ mailbox[u] = <<"g2">>
    /\ mailbox' = [mailbox EXCEPT ![u] = <<"g1", "g2">>]
    /\ UNCHANGED <<tickerFrame, emails, nextID, chans, ticker>>

RunStep(r) ==
    \/ RunFindAll(r)
    \/ RunExamine(r)
    \/ RunSyncFails(r)
    \/ RunSyncReturns(r)
    \/ RunSend(r)
    \/ RunSummary(r)
    \/ RunEnd(r)

TickerNext ==
    \/ TickerStart
    \/ \E r \in Runs : Tick(r)
    \/ \E r \in Runs : RunFindAll(r)
    \/ \E r \in Runs : RunExamine(r)
    \/ \E r \in Runs : RunSyncFails(r)
    \/ \E r \in Runs : RunSyncReturns(r)
    \/ \E r \in Runs : RunSend(r)
    \/ \E r \in Runs : RunSummary(r)
    \/ \E r \in Runs : RunEnd(r)
    \/ \E u \in Users : Arrive(u)
    \/ HandlerRecv(1)

TickerInit ==
    /\ repo = "memory"
    /\ emails = EmptyStore
    /\ mailbox = [u \in Users |-> <<"g2">>]
    /\ nextID = 1
    /\ sync = [p \in Procs |-> IdleSync]
    /\ cleanDone = [u \in Users |-> FALSE]
    /\ clsCategories = OneCategory
    /\ clsResponse = <<>>
    /\ clsResult = NoResult
    /\ scan = NoScan
    /\ bulk = NoBulk
    /\ unsub = NoUnsub
    /\ mime = NoMime
    /\ text = NoText
    /\ job = NoJob
    /\ ckpt = NoCkpt
    /\ req = NoReq
    /\ clients = [u \in {"u1"} |-> {1}]
    /\ chans = [c \in Conns |-> IF c = 1 THEN [NoChan EXCEPT !.made = TRUE] ELSE NoChan]
    /\ clientsMux = [readers |-> {}, waiting |-> {}]
    /\ conns = [c \in Conns |-> IF c = 1 THEN [pc |-> "listening", user |-> "u1"]
                                ELSE [pc |-> "new", user |-> ""]]
    /\ bc = [p \in Senders |-> IdleSender]
    /\ sends = 0
    /\ \E faulty \in BOOLEAN :
        ticker = [pc |-> "new", faulty |-> faulty, run |-> [r \in Runs |-> NoRun]]

\* The ticker keeps firing, every goroutine keeps being scheduled and its
\* calls return, and the handler of the sink keeps draining it.
SpecTicker ==
    /\ TickerInit
    /\ [][TickerNext]_vars
    /\ WF_vars(TickerStart)
    /\ WF_vars(\E r \in Runs : Tick(r))
    /\ \A r \in Runs : WF_vars(RunStep(r))
    /\ WF_vars(HandlerRecv(1))

\* The sync invocations in flight for the owner.
InFlight(u) == {r \in Runs : ticker.run[r].pc = "sync" /\ ticker.run[r].cur = u}

\* C36: the scheduler never has two sync invocations for the same owner in
\* flight at the same time, also when a run outlasts the tick interval.
C36_NoOverlap == \A u \in Users : Cardinality(InFlight(u)) <= 1

\* Stored for the owner / delivered on the owner's sink as a new_email event.
StoredFor(u, g) == ExistsByGmailID(emails, u, g)

DeliveredNew(c, g) == \E i \in DOMAIN chans[c].sent : chans[c].sent[i] = NewEmailEvent(g)

\* C35: every message that a sync persists for the owner with the draining
\* sink is eventually delivered to that sink as a new_email event, also when
\* the sync invocation that persisted it reported an error for other messages.
C35_EventualDelivery ==
    \A g \in GmailIDs : StoredFor("u1", g) ~> DeliveredNew(1, g)

\* C38: without a backend failure, every message on the provider's page of
\* the owner with the sink that is not stored yet is persisted after
\* finitely many ticks, wherever it is on the page relative to the cursor.
C38_SyncProgress ==
    \A g \in GmailIDs :
        (~ticker.faulty /\ g \in SeqRange(mailbox["u1"]) /\ ~StoredFor("u1", g))
            ~> StoredFor("u1", g)

-----------------------------------------------------------------------------
\* The registry's calls with their waits on clientsMux.
\*
\* A call that needs the write lock (AddClient, RemoveClient, Close) first
\* waits in Lock() until no delivery holds the read lock; its body then runs
\* as one step, since nothing in it blocks, and the deferred Unlock ends it.
\* A delivery waits in RLock() while a caller is waiting in Lock(), as
\* sync.RWMutex admits no new reader then.  The writers are the connections'
\* handlers and the caller of Close, numbered 0.

CloseCaller == 0

\* The connections and the owner of this part of the model: two handlers
\* of one owner; deliveries also go to the owner without a connection.
RegConns == 1..(MaxConns - 1)
RegOwner == "u1"

\* The handler of connection c calls AddClient for the owner.
RegAddCall(c) ==
    /\ conns[c].pc = "new"
    /\ \A d \in Conns : d < c => conns[d].pc # "new"
    /\ conns' = [conns EXCEPT ![c] = [pc |-> "adding", user |-> RegOwner]]
    /\ clientsMux' = [clientsMux EXCEPT !.waiting = @ \cup {c}]
    /\ UNCHANGED <<clients, chans, bc, sends, nonSSEVars>>

\* AddClient gets the lock, registers the sink and returns it.
RegAdd(c) ==
    /\ conns[c].pc = "adding"
    /\ CanLock
    /\ LET u == conns[c].user IN
       clients' = [v \in DOMAIN clients \cup {u} |->
                      IF v = u
                      THEN (IF u \in DOMAIN clients THEN clients[u] ELSE {}) \cup {c}
                      ELSE clients[v]]
    /\ chans' = [chans EXCEPT ![c].made = TRUE]
    /\ conns' = [conns EXCEPT ![c].pc = "listening"]
    /\ clientsMux' = [clientsMux EXCEPT !.waiting = @ \ {c}]
    /\ UNCHANGED <<bc, sends, nonSSEVars>>

\* The request's context ends: the handler returns and its deferred
\* RemoveClient is called.
RegDisconnect(c) ==
    /\ conns[c].pc = "listening"
    /\ conns' = [conns EXCEPT ![c].pc = "removing"]
    /\ clientsMux' = [clientsMux EXCEPT !.waiting = @ \cup {c}]
    /\ UNCHANGED <<clients, chans, bc, sends, nonSSEVars>>

\* RemoveClient gets the lock, unregisters and closes the sink, and returns.
RegRemove(c) ==
    /\ conns[c].pc = "removing"
    /\ CanLock
    /\ LET u == conns[c].user IN
       IF u \in DOMAIN clients
       THEN /\ chans' = [chans EXCEPT ![c].closes = @ + 1]
            /\ clients' = IF clients[u] \ {c} = {}
                          THEN [v \in DOMAIN clients \ {u} |-> clients[v]]
                          ELSE [clients EXCEPT ![u] = @ \ {c}]
       ELSE UNCHANGED <<chans, clients>>
    /\ conns' = [conns EXCEPT ![c].pc = "gone"]
    /\ clientsMux' = [clientsMux EXCEPT !.waiting = @ \ {c}]
    /\ UNCHANGED <<bc, sends, nonSSEVars>>

\* Close is called.
RegCloseCall ==
    /\ CloseCaller \notin clientsMux.waiting
    /\ clientsMux' = [clientsMux EXCEPT !.waiting = @ \cup {CloseCaller}]
    /\ UNCHANGED <<clients, chans, conns, bc, sends, nonSSEVars>>

\* Close gets the lock, closes every registered sink, empties the registry
\* and returns.
RegClose ==
    /\ CloseCaller \in clientsMux.waiting
    /\ CanLock
    /\ chans' = [c \in Conns |->
                    IF \E u \in DOMAIN clients : c \in clients[u]
                    THEN [chans[c] EXCEPT !.closes = @ + 1]
                    ELSE chans[c]]
    /\ clients' = [u \in {} |-> {}]
    /\ clientsMux' = [clientsMux EXCEPT !.waiting = @ \ {CloseCaller}]
    /\ UNCHANGED <<conns, bc, sends, nonSSEVars>>

\* A delivery to the owner is called: it goes to RLock().
RegBroadcastCall(p, userID, email) ==
    /\ bc[p].pc = "idle"
    /\ sends < MaxSends
    /\ sends' = sends + 1
    /\ bc' = [bc EXCEPT ![p] = [IdleSender EXCEPT
                                   !.pc = "rlock", !.user = userID,
                                   !.event = [type |-> "new_email", data |-> email,
                                              n |-> sends + 1]]]
    /\ UNCHANGED <<clients, chans, clientsMux, conns, nonSSEVars>>

\* Mutant of RegRLock: the return for an owner without an entry leaves the
\* read lock held.
RegRLockLeaks(p) ==
    /\ bc[p].pc = "rlock"
    /\ clientsMux.waiting = {}
    /\ IF bc[p].user \notin DOMAIN clients
       THEN /\ bc' = [bc EXCEPT ![p] = IdleSender]
            /\ clientsMux' = [clientsMux EXCEPT !.readers = @ \cup {p}]
       ELSE /\ bc' = [bc EXCEPT ![p].pc = "loop",
                                ![p].todo = UserClients(bc[p].user),
                                ![p].snapshot = clients[bc[p].user]]
            /\ clientsMux' = [clientsMux EXCEPT !.readers = @ \cup {p}]
    /\ UNCHANGED <<clients, chans, conns, sends, nonSSEVars>>

\* The delivery gets the read lock; without an entry for the owner it
\* returns at once, the deferred RUnlock releasing the lock.
RegRLock(p) ==
    /\ bc[p].pc = "rlock"
    /\ clientsMux.waiting = {}
    /\ IF bc[p].user \notin DOMAIN clients
       THEN /\ bc' = [bc EXCEPT ![p] = IdleSender]
            /\ UNCHANGED clientsMux
       ELSE /\ bc' = [bc EXCEPT ![p].pc = "loop",
                                ![p].todo = UserClients(bc[p].user),
                                ![p].snapshot = clients[bc[p].user]]
            /\ clientsMux' = [clientsMux EXCEPT !.readers = @ \cup {p}]
    /\ UNCHANGED <<clients, chans, conns, sends, nonSSEVars>>

\* The select of a delivery waiting on a full sink completes: the handler
\* made room, or the timeout fired.
SelectCompletes(p) == BroadcastWaitSend(p) \/ BroadcastTimeout(p)

RegNext ==
    \/ \E c \in RegConns : RegAddCall(c)
    \/ \E c \in RegConns : RegAdd(c)
    \/ \E c \in RegConns : HandlerRecv(c)
    \/ \E c \in RegConns : RegDisconnect(c)
    \/ \E c \in RegConns : RegRemove(c)
    \/ RegCloseCall
    \/ RegClose
    \/ \E p \in Senders, u \in Users : RegBroadcastCall(p, u, "e1")
    \/ \E p \in Senders : RegRLock(p)
    \/ \E p \in Senders : BroadcastNext(p)
    \/ \E p \in Senders : BroadcastWaitSend(p)
    \/ \E p \in Senders : BroadcastTimeout(p)
    \/ \E p \in Senders : BroadcastEnd(p)

\* Every call that has the lock available takes it and runs; a delivery
\* that finds the read lock available again and again gets it (a released
\* write lock admits the readers that were waiting); the loop of a delivery
\* goes on, and its select completes: the timeout fires.  Nothing is
\* assumed of the handlers: they may stop draining their sinks.
SpecRegistry ==
    /\ SSEInit
    /\ [][RegNext]_vars
    /\ \A c \in RegConns : WF_vars(RegAdd(c)) /\ WF_vars(RegRemove(c))
    /\ WF_vars(RegClose)
    /\ \A p \in Senders :
        /\ SF_vars(RegRLock(p))
        /\ WF_vars(BroadcastNext(p))
        /\ WF_vars(SelectCompletes(p))
        /\ WF_vars(BroadcastEnd(p))

\* C40: in every interleaving of connections registering, disconnecting and
\* unregistering, deliveries (also those waiting on a full sink) and Close,
\* every AddClient, RemoveClient, delivery and Close call returns, given
\* that the delivery timeouts fire.
C40_CallsReturn ==
    /\ \A c \in Conns : (conns[c].pc = "adding") ~> (conns[c].pc = "listening")
    /\ \A c \in Conns : (conns[c].pc = "removing") ~> (conns[c].pc = "gone")
    /\ \A p \in Senders : (bc[p].pc # "idle") ~> (bc[p].pc = "idle")
    /\ (CloseCaller \in clientsMux.waiting) ~> (CloseCaller \notin clientsMux.waiting)

\* A delivery waits on a full sink, holding the read lock, while the sink's
\* handler has disconnected and waits in RemoveClient, and Close waits too.
C40_Witness ==
    \E p \in Senders :
        /\ bc[p].pc = "wait"
        /\ conns[bc[p].cur].pc = "removing"
        /\ CloseCaller \in clientsMux.waiting

=============================================================================
